---- MODULE Spec2Model ----
(***************************************************************************)
(* Convergence logic of the NTT MCP Ansible collection: the stepped resize *)
(* of a PROVISIONEDIOPS disk (server_disk), the NAT rule reconciler (nat), *)
(* and the release of public IPv4 blocks (ipam_public, ansible_gw).        *)
(*                                                                         *)
(* Python semantics are those of Python 3: comparing None with an int      *)
(* raises TypeError, which no handler of these modules catches, so the     *)
(* invocation ends with result "crash".                                    *)
(***************************************************************************)
EXTENDS Integers, Sequences, FiniteSets

\* ------------------------------------------------------------------------
\* Program constants (module_utils/config.py) and Python's None
\* ------------------------------------------------------------------------
IOPS_MULTIPLIER == 3
MAX_IOPS_PER_GB == 10
MAX_DISK_SIZE == 1000
MAX_DISK_IOPS == 15000
NoneVal == -1
\* the TypeError Python 3 raises when None is compared or multiplied with an int
TypeError == -2
\* snapshot_service.disable_replication: the deadline and the interval of its wait
REPL_WAIT_TIME == 120
REPL_POLL_INTERVAL == 5

\* ------------------------------------------------------------------------
\* Bounds of the model
\* ------------------------------------------------------------------------
MaxSize == 4
MaxMainSize == 2
NumInternal == 2
NumBlocks == 2
MaxRuns == 2
MaxWaitTime == 3
MaxPollInterval == 2

VARIABLES
    pc,            \* position of the invocation
    ret,           \* where the invocation continues once wait_for_server returns
    result,        \* "running", "ok" (exit_json), "failed" (fail_json), "crash"
    calls,         \* the mutating remote calls issued so far, in order
    disk,          \* the disk dict handed to expand_piops_disk (a snapshot)
    new_disk_size, \* expand_piops_disk's target size
    new_disk_iops, \* expand_piops_disk's target IOPS
    current_size, current_iops, final_size, final_iops,   \* update_piops_disk's locals
    iter_size, iter_iops,   \* current_size/current_iops at the top of the last iteration
    rsize, riops,  \* the remote disk's size and IOPS
    rspeed,        \* the remote disk's speed
    entry,         \* the function the invocation entered: "main" or "expand_piops_disk"
    params,        \* module.params of server_disk
    check_mode,    \* module.check_mode
    server_running,\* main's local server_running
    await,         \* what the pending wait_for_server checks: "none", "start" or "stop"
    rstarted,      \* the remote server's started flag
    changed,       \* the changed value reported by exit_json
    msg,           \* what the exit or failure message says: "none", "in use", ...
    nats,          \* remote: the NAT rules of the network domain
    blocks,        \* remote: the public IPv4 blocks the network domain owns
    vips,          \* remote: the public addresses used by VIP listeners
    fw,            \* remote: destination of the gateway's firewall rule, or None
    gw,            \* remote: the gateway server
    loc,           \* the local variables of the running nat/ipam_public/ansible_gw function
    nats0,         \* the NAT rules when the invocation started
    run,           \* number of the invocation (a playbook re-run repeats it)
    prev           \* result and changed of the previous invocation

planVars == <<current_size, current_iops, final_size, final_iops, iter_size, iter_iops>>
inputVars == <<entry, params, check_mode, disk>>
vars == <<pc, ret, result, calls, disk, new_disk_size, new_disk_iops,
          current_size, current_iops, final_size, final_iops, iter_size, iter_iops,
          rsize, riops, rspeed, entry, params, check_mode, server_running, await,
          rstarted, changed, msg, nats, blocks, vips, fw, gw, loc, nats0, run, prev>>
sharedVars == <<msg, nats, blocks, vips, fw, gw, loc, nats0, run, prev>>
diskVars == <<ret, disk, new_disk_size, new_disk_iops, current_size, current_iops,
              final_size, final_iops, iter_size, iter_iops, rsize, riops, rspeed,
              server_running, await, rstarted>>

Abs(x) == IF x < 0 THEN -x ELSE x
Min(a, b) == IF a < b THEN a ELSE b

\* DiskCapacitySpec invariant of a PROVISIONEDIOPS disk
Legal(size, iops) ==
    /\ size * IOPS_MULTIPLIER <= iops
    /\ iops <= size * MAX_IOPS_PER_GB

\* ------------------------------------------------------------------------
\* update_piops_disk: the pure parts of one loop iteration
\* ------------------------------------------------------------------------
CurrentMaxIops(cs) == cs * MAX_IOPS_PER_GB

\* faulty variant: the division by IOPS_MULTIPLIER forgotten
NewSize_NoDivide(cs) == CurrentMaxIops(cs)

NewSize(cs) == CurrentMaxIops(cs) \div IOPS_MULTIPLIER

\* "if not final_iops": None and 0 are both false
FinalIops(fs, fi) == IF fi = NoneVal \/ fi = 0 THEN IOPS_MULTIPLIER * fs ELSE fi

\* line 796: is the IOPS part of the iteration entered
IopsBranch(cs, ci, fi) == fi # ci /\ CurrentMaxIops(cs) # ci

\* faulty variant: the IOPS request not clamped to current_size * MAX_IOPS_PER_GB
IopsRequest_NoClamp(cs, ci, fi) ==
    IF ci = NoneVal THEN TypeError
    ELSE IF ~(ci > fi) THEN fi
    ELSE NoneVal

\* lines 797-803: "crash" when None is compared, else the value for change_iops,
\* or NoneVal when no call is made
IopsRequest(cs, ci, fi) ==
    IF CurrentMaxIops(cs) < fi THEN CurrentMaxIops(cs)
    ELSE IF ci = NoneVal THEN TypeError
    ELSE IF ~(ci > fi) THEN fi
    ELSE NoneVal

\* lines 811-817: the value for expand_disk, or NoneVal when no call is made
SizeRequest(cs, fs) ==
    IF NewSize(cs) < fs THEN NewSize(cs)
    ELSE IF ~(cs > fs) THEN fs
    ELSE NoneVal

Call(op, size, iops) == [op |-> op, size |-> size, iops |-> iops]

\* ------------------------------------------------------------------------
\* Actions of the resize planner
\* ------------------------------------------------------------------------
ExpandPiopsDisk ==
    /\ pc = "expand_piops"
    /\ IF new_disk_size > MAX_DISK_SIZE
       THEN /\ pc' = "done" /\ result' = "failed"
            /\ UNCHANGED planVars
       ELSE IF new_disk_iops = NoneVal
       THEN /\ pc' = "done" /\ result' = "crash"
            /\ UNCHANGED planVars
       ELSE IF new_disk_iops > MAX_DISK_IOPS
       THEN /\ pc' = "done" /\ result' = "failed"
            /\ UNCHANGED planVars
       ELSE /\ pc' = "loop" /\ result' = result
            /\ current_size' = disk.sizeGb
            /\ current_iops' = disk.iops
            /\ final_size' = new_disk_size
            /\ final_iops' = new_disk_iops
            /\ UNCHANGED <<iter_size, iter_iops>>
    /\ UNCHANGED <<ret, calls, new_disk_size, new_disk_iops, rsize, riops, rspeed,
                   server_running, await, rstarted, changed>>
    /\ UNCHANGED inputVars
    /\ UNCHANGED sharedVars

PiopsIopsStep ==
    /\ pc = "loop"
    /\ current_size # final_size \/ current_iops # final_iops
    /\ iter_size' = current_size
    /\ iter_iops' = current_iops
    /\ final_iops' = FinalIops(final_size, final_iops)
    /\ LET fi == FinalIops(final_size, final_iops)
           req == IopsRequest(current_size, current_iops, fi)
       IN IF ~IopsBranch(current_size, current_iops, fi)
          THEN /\ pc' = "size"
               /\ UNCHANGED <<ret, result, calls, current_iops, riops>>
          ELSE IF req = TypeError
          THEN /\ pc' = "done" /\ result' = "crash"
               /\ UNCHANGED <<ret, calls, current_iops, riops>>
          ELSE IF req = NoneVal
          THEN /\ pc' = "wait" /\ ret' = "size"
               /\ UNCHANGED <<result, calls, current_iops, riops>>
          ELSE /\ calls' = Append(calls, Call("change_iops", current_size, req))
               /\ riops' = req
               /\ current_iops' = req
               /\ pc' = "wait" /\ ret' = "size"
               /\ UNCHANGED result
    /\ await' = "none"
    /\ UNCHANGED <<new_disk_size, new_disk_iops, current_size, final_size, rsize, rspeed,
                   server_running, rstarted, changed>>
    /\ UNCHANGED inputVars
    /\ UNCHANGED sharedVars

PiopsSizeStep ==
    /\ pc = "size"
    /\ LET req == SizeRequest(current_size, final_size)
       IN IF final_size = current_size
          THEN /\ pc' = "loop"
               /\ UNCHANGED <<ret, calls, current_size, rsize>>
          ELSE IF req = NoneVal
          THEN /\ pc' = "wait" /\ ret' = "loop"
               /\ UNCHANGED <<calls, current_size, rsize>>
          ELSE /\ calls' = Append(calls, Call("expand_disk", req, current_iops))
               /\ rsize' = req
               /\ current_size' = req
               /\ pc' = "wait" /\ ret' = "loop"
    /\ await' = "none"
    /\ UNCHANGED <<result, new_disk_size, new_disk_iops, current_iops,
                   final_size, final_iops, iter_size, iter_iops, riops, rspeed,
                   server_running, rstarted, changed>>
    /\ UNCHANGED inputVars
    /\ UNCHANGED sharedVars

PiopsReturn ==
    /\ pc = "loop"
    /\ ~(current_size # final_size \/ current_iops # final_iops)
    /\ IF entry = "main"
       THEN pc' = "start" /\ result' = result
       ELSE pc' = "done" /\ result' = "ok"
    /\ UNCHANGED <<ret, calls, new_disk_size, new_disk_iops, rsize, riops, rspeed,
                   server_running, await, rstarted, changed>>
    /\ UNCHANGED planVars
    /\ UNCHANGED inputVars
    /\ UNCHANGED sharedVars

\* no function of nat, ipam_public or ansible_gw is running, no wait either
NoLocals == [none |-> TRUE]
\* get_disk found no disk on the controller at disk_number
NoDisk == [sizeGb |-> NoneVal, iops |-> NoneVal, speed |-> "None"]

\* ------------------------------------------------------------------------
\* wait_for_server: the convergence poller of server_disk, server_controller
\* and ansible_gw.  A poll fetches the server; the remote system answers with
\* a snapshot, with a list that lacks the server, or with an API exception.
\* ------------------------------------------------------------------------
Snapshots == [state : {"NORMAL", "PENDING_CHANGE"}, started : BOOLEAN,
              vmTools : {"RUNNING", "NOT_RUNNING"}]
\* server = [] before the first fetch; actual_state = '' and start_state = ''
NoSnapshot == [state |-> "", started |-> FALSE, vmTools |-> "None"]
Missing == [state |-> "missing", started |-> FALSE, vmTools |-> "None"]
ApiError == [state |-> "error", started |-> FALSE, vmTools |-> "None"]
Responses == Snapshots \cup {Missing, ApiError}
\* ansible_gw's wait_for_server reads no vmTools status
ResponsesOf(variant) ==
    IF variant = "ansible_gw" THEN {r \in Responses : r.vmTools # "RUNNING"}
    ELSE Responses

WaitVariants == {"server_disk", "server_controller", "ansible_gw"}

\* faulty variant: check_for_start and check_for_stop ignored
WaitRequired_StateOnly(state, check_for_start, check_for_stop, wait_for_vmtools, actual_state, start_state, vmtools_status) ==
    IF actual_state # state THEN TRUE
    ELSE IF wait_for_vmtools /\ ~vmtools_status THEN TRUE
    ELSE FALSE

\* server_disk lines 1070-1079 (server_controller 726-735, ansible_gw 691)
WaitRequired(state, check_for_start, check_for_stop, wait_for_vmtools, actual_state, start_state, vmtools_status) ==
    IF actual_state # state THEN TRUE
    ELSE IF check_for_start /\ ~start_state THEN TRUE
    ELSE IF check_for_stop /\ start_state THEN TRUE
    ELSE IF wait_for_vmtools /\ ~vmtools_status THEN TRUE
    ELSE FALSE

\* server_disk lines 1056-1058: vmtools_status is set and never reset
VmtoolsStatus(wait_for_vmtools, vmtools_status, snapshot) ==
    IF wait_for_vmtools /\ snapshot.vmTools = "RUNNING" THEN TRUE ELSE vmtools_status

\* the number of iterations of "while time < wait_time", time growing by the interval
Ceil(t, p) == (t + p - 1) \div p

\* the locals of wait_for_server when it is entered; on_return is where the
\* caller goes on when the wait returns; polls records the answers of the
\* fetches when the wait is looked at on its own (on_return = "done")
WaitLocals(variant, state, check_for_start, check_for_stop, wait_for_vmtools, wait_time, wait_poll_interval, on_return) ==
    [variant |-> variant, state |-> state,
     check_for_start |-> check_for_start, check_for_stop |-> check_for_stop,
     wait_for_vmtools |-> wait_for_vmtools,
     wait_time |-> wait_time, wait_poll_interval |-> wait_poll_interval,
     set_state |-> FALSE, actual_state |-> "", start_state |-> FALSE,
     time |-> 0, vmtools_status |-> FALSE, server |-> NoSnapshot,
     polls |-> <<>>, data |-> NoSnapshot, on_return |-> on_return,
     caller |-> NoLocals]

\* one iteration of the loop on the answer r of the fetch: the locals after
\* it, and the message of the fail_json that ends it ("none": the loop goes on)
WaitStep(l, r) ==
    LET polled == [l EXCEPT !.polls = IF l.on_return = "done" THEN Append(@, r) ELSE @]
        vm == VmtoolsStatus(l.wait_for_vmtools, l.vmtools_status, r)
        actual_state == IF r = Missing THEN l.actual_state ELSE r.state
        start_state == IF r = Missing THEN l.start_state ELSE r.started
        wait_required == WaitRequired(l.state, l.check_for_start, l.check_for_stop,
                                      l.wait_for_vmtools, actual_state, start_state, vm)
    IN IF r = ApiError
       THEN \* fail_json(msg='Failed to get a list of servers')
            [l |-> polled, exit |-> "fetch failed"]
       ELSE IF r = Missing /\ (l.variant # "server_disk" \/ l.wait_for_vmtools)
       THEN \* IndexError / AttributeError: fail_json(msg='Failed to find the server')
            [l |-> [polled EXCEPT !.server = NoSnapshot], exit |-> "server not found"]
       ELSE [l |-> [polled EXCEPT
                      !.server = IF r = Missing THEN NoSnapshot ELSE r,
                      !.vmtools_status = vm,
                      !.actual_state = actual_state,
                      !.start_state = start_state,
                      !.time = IF wait_required THEN l.time + l.wait_poll_interval
                               ELSE l.time,
                      !.set_state = ~wait_required],
             exit |-> "none"]

\* after the loop: the timeout, the IndexError of "return server[0]" on an
\* empty list, or the return of the last snapshot fetched
WaitEnd(l) ==
    IF l.server # NoSnapshot /\ l.time >= l.wait_time THEN "timeout"
    ELSE IF l.server = NoSnapshot /\ l.variant # "ansible_gw" THEN "crash"
    ELSE "return"

\* ------------------------------------------------------------------------
\* wait_for_server as server_disk and server_controller call it.  Its locals
\* are in loc from the first fetch until it returns.
\* ------------------------------------------------------------------------
\* the interval of update_piops_disk's waits (lines 805, 819)
PIOPS_POLL_INTERVAL == 10
\* server_command, lines 994-997: the cap of the interval of its waits
SERVER_COMMAND_MAX_POLL == 15

\* the wait_time and wait_poll_interval parameters of the bounded domain
DiskWaitTimes == {PIOPS_POLL_INTERVAL, 2 * PIOPS_POLL_INTERVAL}
DiskPollIntervals == {PIOPS_POLL_INTERVAL, 2 * PIOPS_POLL_INTERVAL}

\* the interval the caller hands over: update_piops_disk's literal, the
\* capped one of server_command, or the parameter
WaitInterval ==
    IF ret \in {"size", "loop"} THEN PIOPS_POLL_INTERVAL
    ELSE IF await # "none"
    THEN (IF params.wait_poll_interval < SERVER_COMMAND_MAX_POLL
          THEN params.wait_poll_interval ELSE SERVER_COMMAND_MAX_POLL)
    ELSE params.wait_poll_interval

\* server_command: CORE['wait_for_vmtools'] is set for the wait behind a start,
\* by server_disk (lines 1009-1011) when the parameter asks for it, by
\* server_controller (lines 670-672) always
WaitForVmtools ==
    await = "start" /\ (IF entry = "server_controller" THEN TRUE
                        ELSE params.wait_for_vmtools)

\* the locals when the wait is entered: state 'NORMAL', check_for_start after
\* a start and check_for_stop after a shutdown
WaitEntered ==
    WaitLocals(IF entry = "server_controller" THEN "server_controller" ELSE "server_disk",
               "NORMAL", await = "start", await = "stop", WaitForVmtools,
               params.wait_time, WaitInterval, ret)

\* what a fetch can answer: the started flag only differs from the one last
\* seen while a start or a shutdown is under way; the vmTools status is only
\* told apart by a wait that reads it
ShutdownUnwaited == ~params.wait /\ calls # <<>> /\ calls[1].op = "shutdown_server"

DiskAnswers(l) ==
    {r \in Responses :
        /\ r.vmTools = "RUNNING" => l.wait_for_vmtools
        /\ r \in Snapshots =>
              (await # "none" \/ ShutdownUnwaited \/ r.started = rstarted)}

\* is the IndexError of "return server[0]" caught by the caller's handler:
\* update_disk 735 and 745, server_disk main 1239 (state=absent); add_disk,
\* remove_disk's own handler, server_command and update_piops_disk catch
\* NTTMCPAPIException only
IndexErrorCaught ==
    \/ entry = "server_disk"
    \/ entry = "main" /\ ret = "resize"
    \/ entry = "main" /\ ret = "start" /\ disk # NoDisk

\* one iteration of the loop (the fetch, then the return or the sleep), or
\* what follows the loop once the deadline has passed
WaitForServer ==
    /\ pc = "wait"
    /\ LET l == IF loc = NoLocals THEN WaitEntered ELSE loc
       IN IF l.time < l.wait_time
          THEN \E r \in DiskAnswers(l) :
                  LET step == WaitStep(l, r)
                  IN IF step.exit # "none"
                     THEN \* fail_json: the fetch failed, or the server is not listed
                          /\ pc' = "done" /\ result' = "failed"
                          /\ loc' = NoLocals
                          /\ rstarted' = rstarted
                     ELSE IF step.l.set_state
                     THEN \* return server[0]
                          /\ pc' = ret /\ result' = result
                          /\ loc' = NoLocals
                          /\ rstarted' = r.started
                     ELSE \* sleep(wait_poll_interval)
                          /\ loc' = step.l
                          /\ UNCHANGED <<pc, result, rstarted>>
          ELSE /\ pc' = "done"
               /\ result' = IF WaitEnd(l) = "timeout" \/ IndexErrorCaught
                            THEN "failed" ELSE "crash"
               /\ loc' = NoLocals
               /\ rstarted' = rstarted
    /\ UNCHANGED <<ret, calls, new_disk_size, new_disk_iops, rsize, riops, rspeed,
                   server_running, await, changed>>
    /\ UNCHANGED planVars
    /\ UNCHANGED inputVars
    /\ UNCHANGED <<msg, nats, blocks, vips, fw, gw, nats0, run, prev>>

\* ------------------------------------------------------------------------
\* server_disk main, state=present: the flow around the planner
\* ------------------------------------------------------------------------

\* Python truthiness of an optional int
Truthy(x) == x # NoneVal /\ x # 0

\* compare_disk: does the disk with the given parameters applied differ
CompareDisk(d, p) ==
    \/ Truthy(p.size) /\ p.size # d.sizeGb
    \/ p.speed # d.speed
    \/ Truthy(p.iops) /\ p.iops # d.iops

\* validate_disk_iops
ValidateDiskIops(d, disk_size, disk_iops) ==
    IF disk_size = NoneVal THEN TypeError
    ELSE IF d.speed = "PROVISIONEDIOPS"
    THEN IF Truthy(disk_iops)
         THEN IF ~(disk_iops > disk_size * IOPS_MULTIPLIER)
              THEN disk_size * IOPS_MULTIPLIER ELSE disk_iops
         ELSE IF d.iops = NoneVal THEN TypeError
         ELSE IF ~(d.iops > disk_size * IOPS_MULTIPLIER)
              THEN disk_size * IOPS_MULTIPLIER ELSE disk_iops
    ELSE IF disk_iops = NoneVal THEN TypeError
    ELSE IF ~(disk_iops > disk_size * IOPS_MULTIPLIER)
         THEN disk_size * IOPS_MULTIPLIER ELSE disk_iops

\* add_disk, lines 658-665: the IOPS count handed to client.add_disk
AddDiskIops(p) ==
    IF p.type = "PROVISIONEDIOPS"
    THEN ValidateDiskIops([sizeGb |-> p.size, iops |-> p.iops, speed |-> p.speed],
                          p.size, p.iops)
    ELSE p.iops

\* main, lines 1178-1207: check mode, compare_disk, and the stop of a running server
MainPresent ==
    /\ pc = "main"
    /\ LET next == IF disk = NoDisk THEN "add" ELSE "update"
       IN IF check_mode \/ (disk # NoDisk /\ ~CompareDisk(disk, params))
          THEN /\ pc' = "done" /\ result' = "ok"
               /\ UNCHANGED <<ret, calls, server_running, await>>
          ELSE IF server_running /\ params.stop
          THEN /\ calls' = Append(calls, Call("shutdown_server", NoneVal, NoneVal))
               /\ server_running' = FALSE
               /\ result' = result
               /\ IF params.wait
                  THEN pc' = "wait" /\ ret' = next /\ await' = "stop"
                  ELSE pc' = next /\ ret' = ret /\ await' = await
          ELSE IF server_running /\ ~params.stop
          THEN /\ pc' = "done" /\ result' = "failed"
               /\ UNCHANGED <<ret, calls, server_running, await>>
          ELSE /\ pc' = next /\ result' = result
               /\ UNCHANGED <<ret, calls, server_running, await>>
    /\ UNCHANGED <<new_disk_size, new_disk_iops, rsize, riops, rspeed, rstarted, changed>>
    /\ UNCHANGED planVars
    /\ UNCHANGED inputVars
    /\ UNCHANGED sharedVars

\* add_disk
AddDisk ==
    /\ pc = "add"
    /\ calls' = Append(calls, Call("add_disk", params.size, AddDiskIops(params)))
    /\ rsize' = params.size
    /\ riops' = AddDiskIops(params)
    /\ rspeed' = params.speed
    /\ IF params.wait
       THEN pc' = "wait" /\ ret' = "start" /\ await' = "none"
       ELSE pc' = "start" /\ ret' = ret /\ await' = await
    /\ UNCHANGED <<result, new_disk_size, new_disk_iops, server_running, rstarted, changed>>
    /\ UNCHANGED planVars
    /\ UNCHANGED inputVars
    /\ UNCHANGED sharedVars

\* update_disk, lines 726-737: the change of the disk speed
UpdateDiskSpeed ==
    /\ pc = "update"
    /\ IF params.speed # disk.speed
       THEN LET iops == IF params.speed = "PROVISIONEDIOPS"
                        THEN disk.sizeGb * IOPS_MULTIPLIER ELSE NoneVal
            IN /\ calls' = Append(calls, Call("update_disk_speed", disk.sizeGb, iops))
               /\ rspeed' = params.speed
               /\ riops' = iops
               /\ IF params.wait
                  THEN pc' = "wait" /\ ret' = "resize" /\ await' = "none"
                  ELSE pc' = "resize" /\ ret' = ret /\ await' = await
       ELSE /\ pc' = "resize"
            /\ UNCHANGED <<ret, calls, rspeed, riops, await>>
    /\ UNCHANGED <<result, new_disk_size, new_disk_iops, rsize, server_running, rstarted,
                   changed>>
    /\ UNCHANGED planVars
    /\ UNCHANGED inputVars
    /\ UNCHANGED sharedVars

\* update_disk, lines 739-756: the size change, or the call of expand_piops_disk
UpdateDiskResize ==
    /\ pc = "resize"
    /\ IF params.speed # "PROVISIONEDIOPS"
       THEN IF Truthy(params.size) /\ params.size # disk.sizeGb
            THEN /\ calls' = Append(calls, Call("expand_disk", params.size, NoneVal))
                 /\ rsize' = params.size
                 /\ result' = result
                 /\ IF params.wait
                    THEN pc' = "wait" /\ ret' = "start" /\ await' = "none"
                    ELSE pc' = "start" /\ ret' = ret /\ await' = await
                 /\ UNCHANGED <<new_disk_size, new_disk_iops>>
            ELSE /\ pc' = "start"
                 /\ UNCHANGED <<ret, result, calls, rsize, await, new_disk_size,
                                new_disk_iops>>
       ELSE LET disk_iops == ValidateDiskIops(disk, params.size, params.iops)
            IN IF disk_iops = TypeError
               THEN /\ pc' = "done" /\ result' = "crash"
                    /\ UNCHANGED <<ret, calls, rsize, await, new_disk_size, new_disk_iops>>
               ELSE IF disk_iops # disk.iops \/ params.size # disk.sizeGb
               THEN /\ pc' = "expand_piops"
                    /\ new_disk_size' = params.size
                    /\ new_disk_iops' = disk_iops
                    /\ UNCHANGED <<ret, result, calls, rsize, await>>
               ELSE /\ pc' = "start"
                    /\ UNCHANGED <<ret, result, calls, rsize, await, new_disk_size,
                                   new_disk_iops>>
    /\ UNCHANGED <<riops, rspeed, server_running, rstarted, changed>>
    /\ UNCHANGED planVars
    /\ UNCHANGED inputVars
    /\ UNCHANGED sharedVars

\* main, lines 1193-1194 and 1208-1209: server_command(module, client, server, 'start')
StartServer ==
    /\ pc = "start"
    /\ IF params.start /\ ~server_running
       THEN /\ calls' = Append(calls, Call("start_server", NoneVal, NoneVal))
            /\ IF params.wait
               THEN pc' = "wait" /\ ret' = "exit" /\ await' = "start"
               ELSE pc' = "exit" /\ ret' = ret /\ await' = await
       ELSE /\ pc' = "exit"
            /\ UNCHANGED <<ret, calls, await>>
    /\ UNCHANGED <<result, new_disk_size, new_disk_iops, rsize, riops, rspeed,
                   server_running, rstarted, changed>>
    /\ UNCHANGED planVars
    /\ UNCHANGED inputVars
    /\ UNCHANGED sharedVars

\* main, lines 1195-1196 and 1210-1211: exit_json(changed=True, ...)
MainExit ==
    /\ pc = "exit"
    /\ pc' = "done"
    /\ result' = "ok"
    /\ changed' = TRUE
    /\ UNCHANGED <<ret, calls, new_disk_size, new_disk_iops, rsize, riops, rspeed,
                   server_running, await, rstarted>>
    /\ UNCHANGED planVars
    /\ UNCHANGED inputVars
    /\ UNCHANGED sharedVars

\* ------------------------------------------------------------------------
\* The remote network domain as the provider client shows it
\* ------------------------------------------------------------------------
IntIps == 1..NumInternal
ExtIps == 1..(2 * NumBlocks)

\* a /31 block b holds baseIp and baseIp + 1
BaseIp(b) == 2 * b - 1
BlockIps(b) == {BaseIp(b), BaseIp(b) + 1}
BlockOf(ip) == (ip + 1) \div 2

NoRule == [internalIp |-> NoneVal, externalIp |-> NoneVal]
Rule(int, ext) == [internalIp |-> int, externalIp |-> ext]
NoServer == [privateIpv4 |-> NoneVal, started |-> FALSE]
NoPrev == [result |-> "none", changed |-> FALSE]

SharedIdle ==
    /\ msg = "none" /\ nats = {} /\ blocks = {} /\ vips = {} /\ fw = NoneVal
    /\ gw = NoServer /\ loc = NoLocals /\ nats0 = {} /\ run = 1 /\ prev = NoPrev

DiskIdle ==
    /\ ret = "none" /\ disk = NoDisk
    /\ new_disk_size = NoneVal /\ new_disk_iops = NoneVal
    /\ current_size = NoneVal /\ current_iops = NoneVal
    /\ final_size = NoneVal /\ final_iops = NoneVal
    /\ iter_size = NoneVal /\ iter_iops = NoneVal
    /\ rsize = NoneVal /\ riops = NoneVal /\ rspeed = "None"
    /\ server_running = FALSE /\ await = "none" /\ rstarted = FALSE

\* client.get_nat_by_private_ip / get_nat_by_public_ip: the rule, or None
GetNatByPrivateIp(ns, ip) ==
    IF \E r \in ns : r.internalIp = ip
    THEN CHOOSE r \in ns : r.internalIp = ip ELSE NoRule

GetNatByPublicIp(ns, ip) ==
    IF \E r \in ns : r.externalIp = ip
    THEN CHOOSE r \in ns : r.externalIp = ip ELSE NoRule

\* client.get_public_ipv4_by_ip: the owned block holding the address, or None
GetPublicIpv4ByIp(bs, ip) ==
    IF ip # NoneVal /\ BlockOf(ip) \in bs THEN BlockOf(ip) ELSE NoneVal

\* client.check_public_block_in_use: does a NAT rule or a VIP use an address of the block
CheckPublicBlockInUse(ns, vs, b) ==
    \E ip \in BlockIps(b) : ip \in vs \/ \E r \in ns : r.externalIp = ip

\* client.get_next_public_ipv4: a free address of an owned block, else the base
\* address of a newly provisioned block; None when no block can be provisioned
FreeIps(bs, ns, vs) ==
    {ip \in ExtIps : BlockOf(ip) \in bs /\ ip \notin vs /\ \A r \in ns : r.externalIp # ip}

SetMin(S) == CHOOSE x \in S : \A y \in S : x <= y

NextBlock(bs) == IF (1..NumBlocks) \ bs = {} THEN NoneVal ELSE SetMin((1..NumBlocks) \ bs)

\* a remote call with its argument(s) and, for a query, its answer
RCall(op, arg, res) == [op |-> op, arg |-> arg, res |-> res]

\* exit_json / fail_json
Exit(r, c, m) == pc' = "done" /\ result' = r /\ changed' = c /\ msg' = m

\* ------------------------------------------------------------------------
\* nat state=present: create_nat_rule
\* ------------------------------------------------------------------------
\* faulty variant: the requested external IP compared before it is defaulted to the rule's
NatExact_NoDefault(nat_rule, internal_ip, external_ip) ==
    /\ nat_rule # NoRule
    /\ nat_rule.internalIp = internal_ip
    /\ nat_rule.externalIp = external_ip

\* lines 234-241: the rule found for the internal IP already is the requested rule
NatExact(nat_rule, internal_ip, external_ip) ==
    /\ nat_rule # NoRule
    /\ LET ext == IF external_ip = NoneVal THEN nat_rule.externalIp ELSE external_ip
       IN nat_rule.internalIp = internal_ip /\ nat_rule.externalIp = ext

\* faulty variant: the rule holding the external IP looked at only when the internal IP has no rule
NatConflicts_Elif(nat_rule, nat_rule_public) ==
    IF nat_rule # NoRule THEN <<nat_rule>>
    ELSE IF nat_rule_public # NoRule THEN <<nat_rule_public>> ELSE <<>>

\* lines 242-255: the rules removed before the creation, in the order of their removal
NatConflicts(nat_rule, nat_rule_public) ==
    (IF nat_rule # NoRule THEN <<nat_rule>> ELSE <<>>)
    \o (IF nat_rule_public # NoRule THEN <<nat_rule_public>> ELSE <<>>)

\* lines 242-248 and 251-254: return_data['nat'] when check mode exits
NatReturnData(nat_rule, nat_rule_public) ==
    (IF nat_rule # NoRule THEN <<nat_rule>> ELSE <<>>)
    \o (IF nat_rule_public # NoRule THEN <<nat_rule_public>> ELSE <<>>)

\* lines 226-248: the two lookups and what they decide
NatLookup ==
    /\ pc = "nat_present"
    /\ LET nat_rule == GetNatByPrivateIp(nats, params.internal_ip)
           nat_rule_public == GetNatByPublicIp(nats, params.external_ip)
           external_ip == IF nat_rule # NoRule /\ params.external_ip = NoneVal
                          THEN nat_rule.externalIp ELSE params.external_ip
           locals == [nat_rule |-> nat_rule, nat_rule_public |-> nat_rule_public,
                      external_ip |-> external_ip,
                      return_data |-> <<>>,
                      pending |-> NatConflicts(nat_rule, nat_rule_public)]
       IN IF params.internal_ip = NoneVal
          THEN Exit("failed", FALSE, "internal_ip required") /\ loc' = loc
          ELSE IF NatExact(nat_rule, params.internal_ip, params.external_ip)
          THEN /\ Exit("ok", FALSE, "none")
               /\ loc' = [locals EXCEPT !.return_data = <<nat_rule>>, !.pending = <<>>]
          ELSE IF locals.pending # <<>> /\ check_mode
          THEN /\ Exit("ok", FALSE, "will be affected")
               /\ loc' = [locals EXCEPT
                            !.return_data = NatReturnData(nat_rule, nat_rule_public)]
          ELSE /\ pc' = IF locals.pending # <<>> THEN "nat_remove" ELSE "nat_alloc"
               /\ loc' = locals
               /\ UNCHANGED <<result, changed, msg>>
    /\ UNCHANGED <<calls, nats, blocks, vips, fw, gw, nats0, run, prev>>
    /\ UNCHANGED <<entry, params, check_mode>>
    /\ UNCHANGED diskVars

\* lines 249 and 255: client.remove_nat_rule for the next conflicting rule
NatRemove ==
    /\ pc = "nat_remove"
    /\ LET r == Head(loc.pending)
       IN /\ calls' = Append(calls, RCall("remove_nat_rule", r.internalIp, r.externalIp))
          /\ nats' = nats \ {r}
          /\ loc' = [loc EXCEPT !.pending = Tail(loc.pending)]
          /\ pc' = IF Tail(loc.pending) = <<>> THEN "nat_alloc" ELSE "nat_remove"
    /\ UNCHANGED <<result, changed, msg, blocks, vips, fw, gw, nats0, run, prev>>
    /\ UNCHANGED <<entry, params, check_mode>>
    /\ UNCHANGED diskVars

\* lines 259-271: the allocation of a public address, then check mode's exit
NatAllocate ==
    /\ pc = "nat_alloc"
    /\ LET free == FreeIps(blocks, nats, vips)
           nb == NextBlock(blocks)
       IN IF loc.external_ip # NoneVal
          THEN /\ IF check_mode
                  THEN Exit("ok", FALSE, "will be created")
                  ELSE pc' = "nat_create" /\ UNCHANGED <<result, changed, msg>>
               /\ UNCHANGED <<calls, blocks, loc>>
          ELSE IF free # {}
          THEN /\ loc' = [loc EXCEPT !.external_ip = SetMin(free)]
               /\ IF check_mode
                  THEN Exit("ok", FALSE, "will be created")
                  ELSE pc' = "nat_create" /\ UNCHANGED <<result, changed, msg>>
               /\ UNCHANGED <<calls, blocks>>
          ELSE IF nb = NoneVal
          THEN /\ Exit("failed", FALSE, "could not allocate")
               /\ UNCHANGED <<calls, blocks, loc>>
          ELSE /\ calls' = Append(calls, RCall("add_public_ipv4", nb, NoneVal))
               /\ blocks' = blocks \cup {nb}
               /\ loc' = [loc EXCEPT !.external_ip = BaseIp(nb)]
               /\ IF check_mode
                  THEN Exit("ok", FALSE, "will be created")
                  ELSE pc' = "nat_create" /\ UNCHANGED <<result, changed, msg>>
    /\ UNCHANGED <<nats, vips, fw, gw, nats0, run, prev>>
    /\ UNCHANGED <<entry, params, check_mode>>
    /\ UNCHANGED diskVars

\* lines 272-277: client.create_nat_rule; the remote system refuses an external
\* address outside the owned blocks or used by a VIP
NatCreate ==
    /\ pc = "nat_create"
    /\ calls' = Append(calls, RCall("create_nat_rule", params.internal_ip, loc.external_ip))
    /\ IF BlockOf(loc.external_ip) \in blocks /\ loc.external_ip \notin vips
       THEN /\ nats' = nats \cup {Rule(params.internal_ip, loc.external_ip)}
            /\ loc' = [loc EXCEPT
                         !.return_data = <<Rule(params.internal_ip, loc.external_ip)>>]
            /\ Exit("ok", TRUE, "none")
       ELSE /\ Exit("failed", FALSE, "could not create")
            /\ UNCHANGED <<nats, loc>>
    /\ UNCHANGED <<blocks, vips, fw, gw, nats0, run, prev>>
    /\ UNCHANGED <<entry, params, check_mode>>
    /\ UNCHANGED diskVars

\* ------------------------------------------------------------------------
\* nat state=absent: delete_nat_rule
\* ------------------------------------------------------------------------
\* lines 290-301: the rule is looked up by the internal address, else by the
\* external one; nothing found exits unchanged, and so does check mode
NatDeleteLookup ==
    /\ pc = "nat_absent"
    /\ LET nat_rule == GetNatByPrivateIp(nats, params.internal_ip)
           nat_rule_public == GetNatByPublicIp(nats, params.external_ip)
           found == IF nat_rule # NoRule THEN nat_rule ELSE nat_rule_public
       IN /\ loc' = [nat_rule |-> nat_rule, nat_rule_public |-> nat_rule_public,
                     external_ip |-> params.external_ip,
                     return_data |-> <<>>,
                     pending |-> IF found = NoRule THEN <<>> ELSE <<found>>]
          /\ IF found = NoRule
             THEN Exit("ok", FALSE, "no valid NAT rule")
             ELSE IF check_mode
             THEN Exit("ok", FALSE, "will be removed")
             ELSE pc' = "nat_delete" /\ UNCHANGED <<result, changed, msg>>
    /\ UNCHANGED <<calls, nats, blocks, vips, fw, gw, nats0, run, prev>>
    /\ UNCHANGED <<entry, params, check_mode>>
    /\ UNCHANGED diskVars

\* lines 302-306: client.remove_nat_rule and the exit
NatDelete ==
    /\ pc = "nat_delete"
    /\ LET r == Head(loc.pending)
       IN /\ calls' = Append(calls, RCall("remove_nat_rule", r.internalIp, r.externalIp))
          /\ nats' = nats \ {r}
          /\ loc' = [loc EXCEPT !.pending = <<>>]
    /\ Exit("ok", TRUE, "deleted")
    /\ UNCHANGED <<blocks, vips, fw, gw, nats0, run, prev>>
    /\ UNCHANGED <<entry, params, check_mode>>
    /\ UNCHANGED diskVars

\* the same task run again (a playbook re-run) against what the first run left
Rerun ==
    /\ pc = "done"
    /\ run < MaxRuns
    /\ run' = run + 1
    /\ prev' = [result |-> result, changed |-> changed]
    /\ pc' = IF params.state = "absent" THEN "nat_absent" ELSE "nat_present"
    /\ result' = "running"
    /\ changed' = FALSE
    /\ msg' = "none"
    /\ calls' = <<>>
    /\ loc' = NoLocals
    /\ nats0' = nats
    /\ UNCHANGED <<nats, blocks, vips, fw, gw>>
    /\ UNCHANGED <<entry, params, check_mode>>
    /\ UNCHANGED diskVars

\* ------------------------------------------------------------------------
\* ipam_public state=present: get_next_free_public_ipv4 and add_public_ipv4
\* ------------------------------------------------------------------------
\* main, lines 284-294, with get_next_free_public_ipv4 (151-169) and
\* add_public_ipv4 (172-195): check mode exits first; the next free address
\* is one of an owned block, else the first of a newly provisioned block
IpamPresent ==
    /\ pc = "ipam_present"
    /\ LET free == FreeIps(blocks, nats, vips)
           nb == NextBlock(blocks)
       IN IF check_mode
          THEN /\ Exit("ok", FALSE, IF params.next_free_public_ipv4
                                    THEN "will be consumed" ELSE "will be added")
               /\ UNCHANGED <<calls, blocks, loc>>
          ELSE IF params.next_free_public_ipv4 /\ free # {}
          THEN /\ Exit("ok", FALSE, "none")
               /\ loc' = [public_ipv4_block |-> BlockOf(SetMin(free)), ip |-> SetMin(free)]
               /\ UNCHANGED <<calls, blocks>>
          ELSE IF nb = NoneVal
          THEN \* no address and no block to be had: line 165 reads
               \* result.get('ipAddress') of None, an AttributeError that line
               \* 166 does not catch; add_public_ipv4 ends in fail_json (190-193)
               /\ IF params.next_free_public_ipv4
                  THEN Exit("crash", FALSE, "none")
                  ELSE Exit("failed", FALSE, "could not add")
               /\ UNCHANGED <<calls, blocks, loc>>
          ELSE /\ calls' = Append(calls, RCall("add_public_ipv4", nb, NoneVal))
               /\ blocks' = blocks \cup {nb}
               /\ loc' = [public_ipv4_block |-> nb, ip |-> BaseIp(nb)]
               /\ Exit("ok", TRUE, "none")
    /\ UNCHANGED <<nats, vips, fw, gw, nats0, run, prev>>
    /\ UNCHANGED <<entry, params, check_mode>>
    /\ UNCHANGED diskVars

\* ------------------------------------------------------------------------
\* ipam_public state=absent: delete_public_ipv4
\* ------------------------------------------------------------------------
\* line 222: the release is refused when the block is in use
IpamBlocked(in_use) == in_use

\* lines 207-231: the lookup of the block, the in-use check and check mode
IpamAbsentCheck ==
    /\ pc = "ipam_absent"
    /\ LET found == IF params.id = NoneVal
                    THEN GetPublicIpv4ByIp(blocks, params.ip_address)
                    ELSE IF params.id \in blocks THEN params.id ELSE NoneVal
           in_use == CheckPublicBlockInUse(nats, vips, found)
       IN IF params.id = NoneVal /\ params.ip_address = NoneVal
          THEN /\ Exit("failed", FALSE, "id or ip_address required")
               /\ UNCHANGED <<calls, loc>>
          ELSE IF found = NoneVal /\ params.id = NoneVal
          THEN \* public_ipv4_block.get('id') on None: AttributeError, not caught
               /\ Exit("crash", FALSE, "none")
               /\ UNCHANGED <<calls, loc>>
          ELSE IF found = NoneVal
          THEN /\ Exit("ok", FALSE, "no matching block")
               /\ UNCHANGED <<calls, loc>>
          ELSE /\ calls' = Append(calls, RCall("check_public_block_in_use", BaseIp(found),
                                               IF in_use THEN 1 ELSE 0))
               /\ loc' = [public_ipv4_block |-> found, ip |-> params.ip_address]
               /\ IF IpamBlocked(in_use)
                  THEN Exit("failed", FALSE, "in use")
                  ELSE IF check_mode
                  THEN Exit("ok", FALSE, "will be removed")
                  ELSE pc' = "ipam_remove" /\ UNCHANGED <<result, changed, msg>>
    /\ UNCHANGED <<nats, blocks, vips, fw, gw, nats0, run, prev>>
    /\ UNCHANGED <<entry, params, check_mode>>
    /\ UNCHANGED diskVars

\* lines 232-236: client.remove_public_ipv4
IpamRemove ==
    /\ pc = "ipam_remove"
    /\ calls' = Append(calls, RCall("remove_public_ipv4", loc.public_ipv4_block, NoneVal))
    /\ blocks' = blocks \ {loc.public_ipv4_block}
    /\ Exit("ok", TRUE, "deleted")
    /\ UNCHANGED <<nats, vips, fw, gw, loc, nats0, run, prev>>
    /\ UNCHANGED <<entry, params, check_mode>>
    /\ UNCHANGED diskVars

\* one iteration of the loop: the fetch and what it decides
WaitPoll ==
    /\ pc = "wait_poll"
    /\ ~loc.set_state /\ loc.time < loc.wait_time
    /\ \E r \in ResponsesOf(loc.variant) :
          LET step == WaitStep(loc, r)
          IN /\ calls' = Append(calls,
                    RCall(IF loc.variant = "ansible_gw" THEN "get_server_by_name"
                          ELSE "list_servers", NoneVal, NoneVal))
             /\ loc' = step.l
             /\ IF step.exit # "none"
                THEN Exit("failed", changed, step.exit)
                ELSE UNCHANGED <<pc, result, changed, msg>>
    /\ UNCHANGED <<nats, blocks, vips, fw, gw, nats0, run, prev>>
    /\ UNCHANGED <<entry, params, check_mode>>
    /\ UNCHANGED diskVars

\* after the loop: the timeout, or the return of the last snapshot fetched
WaitReturn ==
    /\ pc = "wait_poll"
    /\ loc.set_state \/ loc.time >= loc.wait_time
    /\ IF WaitEnd(loc) = "timeout"
       THEN \* fail_json(msg='Timeout waiting for the server to be created')
            /\ Exit("failed", changed, "timeout")
            /\ loc' = loc
       ELSE IF WaitEnd(loc) = "crash"
       THEN \* return server[0] on an empty list: IndexError, not caught
            /\ Exit("crash", changed, "none")
            /\ loc' = loc
       ELSE /\ loc' = [loc EXCEPT !.data = loc.server]
            /\ IF loc.on_return = "done"
               THEN Exit("ok", changed, "none")
               ELSE pc' = loc.on_return /\ UNCHANGED <<result, changed, msg>>
    /\ UNCHANGED <<calls, nats, blocks, vips, fw, gw, nats0, run, prev>>
    /\ UNCHANGED <<entry, params, check_mode>>
    /\ UNCHANGED diskVars

\* ------------------------------------------------------------------------
\* ansible_gw delete_server in detail: the shutdown and its wait_for_server,
\* client.delete_server, and the wait for the server to leave list_servers
\* ------------------------------------------------------------------------
\* a poll of the delete wait: the server listed in some state, not listed, or
\* an API exception
DeleteResponses == {"NORMAL", "PENDING_DELETE", "absent", "error"}

\* lines 559-566: the locals of delete_server
DeleteLocals(wait_time, wait_poll_interval) ==
    [server_exists |-> TRUE, time |-> 0, wait_time |-> wait_time,
     wait_poll_interval |-> wait_poll_interval, polls |-> <<>>, caller |-> NoLocals]

\* the locals of the function that called delete_server
CallerOf(l) == IF "caller" \in DOMAIN l THEN l.caller ELSE l

\* faulty variant: the deadline alone decides
DeleteTimedOut_TimeOnly(server_exists, time, wait_time) == time >= wait_time

\* line 587: if server_exists and time >= wait_time
DeleteTimedOut(server_exists, time, wait_time) == server_exists /\ time >= wait_time

\* lines 568-574: a started server is shut down and waited for
GwShutdown ==
    /\ pc = "gwdel_start"
    /\ IF gw.started
       THEN /\ calls' = Append(calls, RCall("shutdown_server", NoneVal, NoneVal))
            /\ gw' = [gw EXCEPT !.started = FALSE]
            /\ loc' = [WaitLocals("ansible_gw", "NORMAL", FALSE, TRUE, FALSE,
                                  params.wait_time, params.wait_poll_interval,
                                  "gwdel_delete") EXCEPT !.caller = loc]
            /\ pc' = "wait_poll"
       ELSE /\ pc' = "gwdel_delete"
            /\ UNCHANGED <<calls, gw, loc>>
    /\ UNCHANGED <<result, changed, msg, nats, blocks, vips, fw, nats0, run, prev>>
    /\ UNCHANGED <<entry, params, check_mode>>
    /\ UNCHANGED diskVars

\* lines 576-580: client.delete_server, and whether to wait; without a wait
\* delete_server returns to main, which goes on with the firewall rule
GwDeleteCall ==
    /\ pc = "gwdel_delete"
    /\ calls' = Append(calls, RCall("delete_server", NoneVal, NoneVal))
    /\ LET locals == [DeleteLocals(params.wait_time, params.wait_poll_interval)
                        EXCEPT !.caller = CallerOf(loc)]
       IN IF params.wait
          THEN /\ loc' = locals
               /\ pc' = "gwdel_poll" /\ UNCHANGED <<result, changed, msg>>
          ELSE IF entry = "delete_server"
          THEN loc' = locals /\ Exit("ok", TRUE, "none")
          ELSE /\ loc' = locals.caller
               /\ pc' = "gw_fw" /\ UNCHANGED <<result, changed, msg>>
    /\ UNCHANGED <<nats, blocks, vips, fw, gw, nats0, run, prev>>
    /\ UNCHANGED <<entry, params, check_mode>>
    /\ UNCHANGED diskVars

\* the answers of the fetches are recorded when delete_server is looked at on
\* its own
PollsWith(polls, r) == IF entry = "delete_server" THEN Append(polls, r) ELSE polls

\* lines 581-585: one iteration of the delete wait
GwDeletePoll ==
    /\ pc = "gwdel_poll"
    /\ loc.server_exists /\ loc.time < loc.wait_time
    /\ \E r \in DeleteResponses :
          /\ calls' = Append(calls, RCall("list_servers", NoneVal, NoneVal))
          /\ IF r = "error"
             THEN \* NTTMCPAPIException, caught by main at line 861
                  /\ Exit("failed", FALSE, "fetch failed")
                  /\ loc' = [loc EXCEPT !.polls = PollsWith(@, r)]
                  /\ gw' = gw
             ELSE /\ loc' = [loc EXCEPT !.polls = PollsWith(@, r),
                                        !.server_exists = (r # "absent"),
                                        !.time = loc.time + loc.wait_poll_interval]
                  /\ gw' = IF r = "absent" THEN NoServer ELSE gw
                  /\ UNCHANGED <<pc, result, changed, msg>>
    /\ UNCHANGED <<nats, blocks, vips, fw, nats0, run, prev>>
    /\ UNCHANGED <<entry, params, check_mode>>
    /\ UNCHANGED diskVars

\* lines 587-590: the timeout, or return True (to main, which goes on with
\* the firewall rule)
GwDeleteReturn ==
    /\ pc = "gwdel_poll"
    /\ ~loc.server_exists \/ loc.time >= loc.wait_time
    /\ IF DeleteTimedOut(loc.server_exists, loc.time, loc.wait_time)
       THEN Exit("failed", FALSE, "timeout") /\ loc' = loc
       ELSE IF entry = "delete_server"
       THEN Exit("ok", TRUE, "none") /\ loc' = loc
       ELSE /\ loc' = loc.caller
            /\ pc' = "gw_fw" /\ UNCHANGED <<result, changed, msg>>
    /\ UNCHANGED <<calls, nats, blocks, vips, fw, gw, nats0, run, prev>>
    /\ UNCHANGED <<entry, params, check_mode>>
    /\ UNCHANGED diskVars

\* ------------------------------------------------------------------------
\* ansible_gw state=absent
\* ------------------------------------------------------------------------
\* faulty variant: the server is left alone
GwHasServer_Never(ansible_gw) == FALSE

\* main, line 833: "if ansible_gw:"
GwHasServer(ansible_gw) == ansible_gw # NoServer

\* main, lines 829-835: the locals of the removal, and delete_server for an
\* existing server before anything else
GwDeleteServer ==
    /\ pc = "gw_absent"
    /\ loc' = [ansible_gw |-> gw, fw_result |-> NoneVal, nat_result |-> NoRule,
               public_ipv4 |-> NoneVal, public_ip_block |-> NoneVal]
    /\ pc' = IF GwHasServer(gw) THEN "gwdel_start" ELSE "gw_fw"
    /\ UNCHANGED <<result, changed, msg, calls, gw>>
    /\ UNCHANGED <<nats, blocks, vips, fw, nats0, run, prev>>
    /\ UNCHANGED <<entry, params, check_mode>>
    /\ UNCHANGED diskVars

\* main, lines 836-838: the firewall rule is looked up and removed
GwDeleteFw ==
    /\ pc = "gw_fw"
    /\ loc' = [loc EXCEPT !.fw_result = fw]
    /\ IF fw # NoneVal
       THEN /\ calls' = Append(calls, RCall("remove_fw_rule", fw, NoneVal))
            /\ fw' = NoneVal
       ELSE UNCHANGED <<calls, fw>>
    /\ pc' = "gw_nat"
    /\ UNCHANGED <<result, changed, msg, nats, blocks, vips, gw, nats0, run, prev>>
    /\ UNCHANGED <<entry, params, check_mode>>
    /\ UNCHANGED diskVars

\* main, lines 845-855: the NAT rule is looked up by the private address of the
\* server, else by the destination of the firewall rule, and removed
GwDeleteNat ==
    /\ pc = "gw_nat"
    /\ LET by_private == GetNatByPrivateIp(nats, loc.ansible_gw.privateIpv4)
           nat_result == IF loc.ansible_gw # NoServer THEN by_private
                         ELSE IF loc.fw_result # NoneVal
                         THEN GetNatByPublicIp(nats, loc.fw_result) ELSE NoRule
           public_ipv4 == IF loc.ansible_gw # NoServer
                          THEN (IF by_private # NoRule THEN by_private.externalIp ELSE NoneVal)
                          ELSE loc.fw_result
       IN /\ loc' = [loc EXCEPT !.nat_result = nat_result, !.public_ipv4 = public_ipv4]
          /\ IF nat_result # NoRule
             THEN /\ calls' = Append(calls, RCall("remove_nat_rule", nat_result.internalIp,
                                                  nat_result.externalIp))
                  /\ nats' = nats \ {nat_result}
             ELSE UNCHANGED <<calls, nats>>
    /\ pc' = "gw_block"
    /\ UNCHANGED <<result, changed, msg, blocks, vips, fw, gw, nats0, run, prev>>
    /\ UNCHANGED <<entry, params, check_mode>>
    /\ UNCHANGED diskVars

\* faulty variant: the block released whatever the in-use check answers
GwMayRelease_Always(in_use) == TRUE

\* line 859: the block is released only when it is not in use
GwMayRelease(in_use) == ~in_use

\* main, lines 856-859: the lookup of the block and its in-use check
GwCheckBlock ==
    /\ pc = "gw_block"
    /\ LET found == GetPublicIpv4ByIp(blocks, loc.public_ipv4)
           in_use == CheckPublicBlockInUse(nats, vips, found)
       IN IF found = NoneVal
          THEN /\ Exit("ok", TRUE, "removed")
               /\ UNCHANGED <<calls, loc>>
          ELSE /\ calls' = Append(calls, RCall("check_public_block_in_use", BaseIp(found),
                                               IF in_use THEN 1 ELSE 0))
               /\ loc' = [loc EXCEPT !.public_ip_block = found]
               /\ IF GwMayRelease(in_use)
                  THEN pc' = "gw_block_remove" /\ UNCHANGED <<result, changed, msg>>
                  ELSE Exit("ok", TRUE, "removed")
    /\ UNCHANGED <<nats, blocks, vips, fw, gw, nats0, run, prev>>
    /\ UNCHANGED <<entry, params, check_mode>>
    /\ UNCHANGED diskVars

\* main, lines 860-864: delete_public_ipv4 and the exit
GwRemoveBlock ==
    /\ pc = "gw_block_remove"
    /\ calls' = Append(calls, RCall("remove_public_ipv4", loc.public_ip_block, NoneVal))
    /\ blocks' = blocks \ {loc.public_ip_block}
    /\ Exit("ok", TRUE, "removed")
    /\ UNCHANGED <<nats, vips, fw, gw, loc, nats0, run, prev>>
    /\ UNCHANGED <<entry, params, check_mode>>
    /\ UNCHANGED diskVars

\* ------------------------------------------------------------------------
\* Specification of the planner alone: expand_piops_disk on every legal
\* (current, target) pair of the bounded domain, and the worked example
\* ------------------------------------------------------------------------
NoParams == [size |-> NoneVal, iops |-> NoneVal, speed |-> "None", type |-> "None",
             stop |-> FALSE, start |-> FALSE, wait |-> FALSE, wait_for_vmtools |-> FALSE,
             wait_time |-> NoneVal, wait_poll_interval |-> NoneVal]

LegalPairs == {p \in (1..MaxSize) \X (1..(MaxSize * MAX_IOPS_PER_GB)) : Legal(p[1], p[2])}
ExamplePairs == {<<10, 30>>, <<100, 1000>>}
CeilingPairs == {<<MAX_DISK_SIZE + 1, IOPS_MULTIPLIER * (MAX_DISK_SIZE + 1)>>,
                 <<MaxSize, MAX_DISK_IOPS + 1>>, <<MaxSize, NoneVal>>, <<MaxSize, 0>>}

InitPlanner ==
    /\ pc = "expand_piops"
    /\ ret = "none"
    /\ result = "running"
    /\ calls = <<>>
    /\ \E cur \in LegalPairs \cup ExamplePairs :
          /\ disk = [sizeGb |-> cur[1], iops |-> cur[2], speed |-> "PROVISIONEDIOPS"]
          /\ rsize = cur[1]
          /\ riops = cur[2]
    /\ rspeed = "PROVISIONEDIOPS"
    /\ entry = "expand_piops_disk"
    /\ params \in {[NoParams EXCEPT !.wait_time = t] : t \in DiskWaitTimes}
    /\ check_mode = FALSE
    /\ server_running = FALSE
    /\ await = "none"
    /\ rstarted = FALSE
    /\ changed = FALSE
    /\ SharedIdle
    /\ \E tgt \in LegalPairs \cup ExamplePairs \cup CeilingPairs :
          /\ new_disk_size = tgt[1]
          /\ new_disk_iops = tgt[2]
    /\ current_size = NoneVal /\ current_iops = NoneVal
    /\ final_size = NoneVal /\ final_iops = NoneVal
    /\ iter_size = NoneVal /\ iter_iops = NoneVal

NextPlanner ==
    \/ ExpandPiopsDisk
    \/ PiopsIopsStep
    \/ PiopsSizeStep
    \/ PiopsReturn
    \/ WaitForServer

SpecPlanner == InitPlanner /\ [][NextPlanner]_vars

\* The module runs as one sequential flow: a step that can be taken is taken
SpecPlannerFair == SpecPlanner /\ WF_vars(NextPlanner)

\* ------------------------------------------------------------------------
\* Specification of server_disk state=present.  The size is always given
\* (omitting it makes validate_disk_iops multiply None); type is one of the
\* argument spec's choices, none of which is PROVISIONEDIOPS.
\* ------------------------------------------------------------------------
MainSizes == (1..MaxMainSize) \cup {MAX_DISK_SIZE + 1}
MainIops == {NoneVal, 0, MAX_DISK_IOPS + 1}
            \cup {sz * k : sz \in 1..MaxMainSize, k \in {IOPS_MULTIPLIER, MAX_IOPS_PER_GB}}
MainDisks == {NoDisk}
             \cup {[sizeGb |-> sz, iops |-> NoneVal, speed |-> "STANDARD"] : sz \in 1..MaxMainSize}
             \cup {[sizeGb |-> sz, iops |-> sz * k, speed |-> "PROVISIONEDIOPS"] :
                      sz \in 1..MaxMainSize, k \in {IOPS_MULTIPLIER, MAX_IOPS_PER_GB}}

InitDisk ==
    /\ pc = "main"
    /\ ret = "none"
    /\ result = "running"
    /\ calls = <<>>
    /\ entry = "main"
    /\ disk \in MainDisks
    /\ rsize = disk.sizeGb
    /\ riops = disk.iops
    /\ rspeed = disk.speed
    /\ params \in [size : MainSizes, iops : MainIops, speed : {"STANDARD", "PROVISIONEDIOPS"},
                   type : {"SCSI"}, stop : BOOLEAN, start : BOOLEAN, wait : BOOLEAN,
                   wait_for_vmtools : BOOLEAN,
                   wait_time : DiskWaitTimes, wait_poll_interval : DiskPollIntervals]
    /\ check_mode \in BOOLEAN
    /\ server_running \in BOOLEAN
    /\ rstarted = server_running
    /\ await = "none"
    /\ changed = FALSE
    /\ SharedIdle
    /\ new_disk_size = NoneVal /\ new_disk_iops = NoneVal
    /\ current_size = NoneVal /\ current_iops = NoneVal
    /\ final_size = NoneVal /\ final_iops = NoneVal
    /\ iter_size = NoneVal /\ iter_iops = NoneVal

NextDisk ==
    \/ MainPresent
    \/ AddDisk
    \/ UpdateDiskSpeed
    \/ UpdateDiskResize
    \/ ExpandPiopsDisk
    \/ PiopsIopsStep
    \/ PiopsSizeStep
    \/ PiopsReturn
    \/ WaitForServer
    \/ StartServer
    \/ MainExit

SpecDisk == InitDisk /\ [][NextDisk]_vars

\* ------------------------------------------------------------------------
\* Specification of nat state=present, from every well-formed network domain
\* ------------------------------------------------------------------------
\* rules have distinct internal and distinct external addresses, taken from
\* the owned blocks; a VIP address is owned and not NATed
WellFormed(ns, bs, vs) ==
    /\ \A r1, r2 \in ns : (r1.internalIp = r2.internalIp \/ r1.externalIp = r2.externalIp)
                             => r1 = r2
    /\ \A r \in ns : BlockOf(r.externalIp) \in bs /\ r.externalIp \notin vs
    /\ \A v \in vs : BlockOf(v) \in bs
    /\ Cardinality(vs) <= 1

\* the addresses of the owned blocks, and the rules that can be on them
OwnedIps(bs) == {ip \in ExtIps : BlockOf(ip) \in bs}
AllRules(bs) == {Rule(i, e) : i \in IntIps, e \in OwnedIps(bs)}

InitRemote ==
    /\ blocks \in SUBSET (1..NumBlocks)
    /\ nats \in {ns \in SUBSET AllRules(blocks) : WellFormed(ns, blocks, {})}
    /\ vips \in {{}} \cup {{v} : v \in {ip \in OwnedIps(blocks) :
                                           \A r \in nats : r.externalIp # ip}}
    /\ nats0 = nats

\* the same with any number of VIPs, up to every owned address being taken
InitRemoteCrowded ==
    /\ blocks \in SUBSET (1..NumBlocks)
    /\ nats \in {ns \in SUBSET AllRules(blocks) : WellFormed(ns, blocks, {})}
    /\ vips \in SUBSET {ip \in OwnedIps(blocks) : \A r \in nats : r.externalIp # ip}
    /\ nats0 = nats

InitNat ==
    /\ result = "running"
    /\ changed = FALSE
    /\ msg = "none"
    /\ calls = <<>>
    /\ entry = "nat"
    /\ params \in [state : {"present", "absent"}, internal_ip : IntIps \cup {NoneVal},
                   external_ip : ExtIps \cup {NoneVal}]
    /\ pc = IF params.state = "absent" THEN "nat_absent" ELSE "nat_present"
    /\ check_mode \in BOOLEAN
    /\ InitRemote
    /\ fw = NoneVal /\ gw = NoServer
    /\ loc = NoLocals
    /\ run = 1 /\ prev = NoPrev
    /\ DiskIdle

NextNat ==
    \/ NatLookup
    \/ NatRemove
    \/ NatAllocate
    \/ NatCreate
    \/ NatDeleteLookup
    \/ NatDelete
    \/ Rerun

SpecNat == InitNat /\ [][NextNat]_vars

\* ------------------------------------------------------------------------
\* Specification of ipam_public (state=present and state=absent) and of
\* ansible_gw state=absent (which has no check mode)
\* ------------------------------------------------------------------------
\* the deadline and the interval of the waits of ansible_gw state=absent: two
\* polls at most (SpecGwDelete has delete_server with every deadline and interval)
GwReleaseWait == [wait_time |-> 2, wait_poll_interval |-> 1]

InitRelease ==
    /\ result = "running"
    /\ changed = FALSE
    /\ msg = "none"
    /\ calls = <<>>
    /\ \/ /\ entry = "ipam_public"
          /\ \/ /\ pc = "ipam_absent"
                /\ params \in [state : {"absent"}, next_free_public_ipv4 : {TRUE},
                               ip_address : ExtIps \cup {NoneVal},
                               id : (1..NumBlocks) \cup {NoneVal}]
                /\ InitRemote
             \/ /\ pc = "ipam_present"
                /\ params \in [state : {"present"}, next_free_public_ipv4 : BOOLEAN,
                               ip_address : {NoneVal}, id : {NoneVal}]
                /\ InitRemoteCrowded
          /\ check_mode \in BOOLEAN
          /\ fw = NoneVal /\ gw = NoServer
       \/ /\ entry = "ansible_gw"
          /\ pc = "gw_absent"
          /\ params \in [state : {"absent"}, wait : BOOLEAN,
                         wait_time : {GwReleaseWait.wait_time},
                         wait_poll_interval : {GwReleaseWait.wait_poll_interval}]
          /\ check_mode = FALSE
          /\ InitRemote
          /\ fw \in ExtIps \cup {NoneVal}
          /\ gw \in {NoServer} \cup [privateIpv4 : IntIps, started : BOOLEAN]
    /\ loc = NoLocals
    /\ run = 1 /\ prev = NoPrev
    /\ DiskIdle

NextRelease ==
    \/ IpamPresent
    \/ IpamAbsentCheck
    \/ IpamRemove
    \/ GwDeleteServer
    \/ GwShutdown
    \/ WaitPoll
    \/ WaitReturn
    \/ GwDeleteCall
    \/ GwDeletePoll
    \/ GwDeleteReturn
    \/ GwDeleteFw
    \/ GwDeleteNat
    \/ GwCheckBlock
    \/ GwRemoveBlock

SpecRelease == InitRelease /\ [][NextRelease]_vars

Spec == SpecPlanner

\* ------------------------------------------------------------------------
\* Properties of the resize planner
\* ------------------------------------------------------------------------
\* A legal PROVISIONEDIOPS disk and a legal target within the ceilings
InputsLegal ==
    /\ Legal(disk.sizeGb, disk.iops)
    /\ Legal(new_disk_size, new_disk_iops)
    /\ new_disk_size <= MAX_DISK_SIZE
    /\ new_disk_iops <= MAX_DISK_IOPS

Dist(size, iops) == Abs(size - final_size) + Abs(iops - final_iops)

\* C1: from every legal (current, target) pair within the ceilings, the resize
\* ends, and unless a wait failed (its fail_json, or the IndexError of its
\* return) the remote disk then has exactly the target size and IOPS.
C1_Converges ==
    InputsLegal =>
        <>(/\ pc = "done"
           /\ \/ result \in {"failed", "crash"}
              \/ /\ result = "ok"
                 /\ rsize = new_disk_size
                 /\ riops = new_disk_iops)

\* C2: every completed iteration of the update_piops_disk loop strictly
\* decreases |current_size - final_size| + |current_iops - final_iops|.
C2_Progress ==
    (InputsLegal /\ pc = "loop" /\ iter_size # NoneVal) =>
        Dist(current_size, current_iops) < Dist(iter_size, iter_iops)

\* C3: from legal inputs every (size, iops) pair requested from the remote
\* system satisfies size*IOPS_MULTIPLIER <= iops <= size*MAX_IOPS_PER_GB.
C3_StepsLegal ==
    InputsLegal =>
        \A i \in 1..Len(calls) : Legal(calls[i].size, calls[i].iops)

C3_Witness ==
    /\ InputsLegal
    /\ Len(calls) >= 3
    /\ \E i \in 1..Len(calls) : calls[i].op = "change_iops"
    /\ \E i \in 1..Len(calls) : calls[i].op = "expand_disk"

\* C4: resizing (10, 30) to (100, 1000) first calls change_iops(100), then
\* expand_disk(33), every call moving to min(target, step ceiling), and ends
\* with size 100 and IOPS 1000 unless a wait failed.
Scenario ==
    /\ disk.sizeGb = 10 /\ disk.iops = 30
    /\ new_disk_size = 100 /\ new_disk_iops = 1000

ScenarioCalls ==
    << Call("change_iops", 10, 100), Call("expand_disk", 33, 100),
       Call("change_iops", 33, 330), Call("expand_disk", 100, 330),
       Call("change_iops", 100, 1000) >>

IsPrefix(s, t) == Len(s) <= Len(t) /\ \A i \in 1..Len(s) : s[i] = t[i]

C4_Example ==
    Scenario =>
        /\ [](IsPrefix(calls, ScenarioCalls))
        /\ <>(/\ pc = "done"
              /\ \/ result \in {"failed", "crash"}
                 \/ result = "ok" /\ rsize = 100 /\ riops = 1000)

C4_Witness ==
    Scenario /\ pc = "done" /\ result = "ok" /\ calls = ScenarioCalls

\* ------------------------------------------------------------------------
\* Properties of server_disk state=present
\* ------------------------------------------------------------------------
OverCeiling == params.size > MAX_DISK_SIZE \/ params.iops > MAX_DISK_IOPS

\* C5: an update whose requested size exceeds MAX_DISK_SIZE or whose requested
\* IOPS exceed MAX_DISK_IOPS fails, and has issued no mutating remote call.
C5_FailFast ==
    (entry = "main" /\ disk # NoDisk /\ ~check_mode /\ OverCeiling) =>
        /\ calls = <<>>
        /\ pc = "done" => result = "failed"

\* C6: with iops omitted for a PROVISIONEDIOPS disk, the IOPS handed to
\* add_disk and to the planner are the target size * IOPS_MULTIPLIER.
C6_IopsDefaulted ==
    (entry = "main" /\ params.iops = NoneVal /\ params.speed = "PROVISIONEDIOPS") =>
        /\ \A i \in 1..Len(calls) :
              calls[i].op = "add_disk" => calls[i].iops = calls[i].size * IOPS_MULTIPLIER
        /\ pc = "expand_piops" => new_disk_iops = new_disk_size * IOPS_MULTIPLIER

\* ------------------------------------------------------------------------
\* Properties of nat state=present
\* ------------------------------------------------------------------------
\* when the invocation started, a rule had the requested internal IP and the
\* requested external IP (or none was requested)
MatchingRule0 ==
    /\ entry = "nat" /\ params.state = "present"
    /\ params.internal_ip # NoneVal
    /\ \E r \in nats0 : /\ r.internalIp = params.internal_ip
                        /\ params.external_ip = NoneVal \/ r.externalIp = params.external_ip

\* C7: with a matching rule in place nat state=present issues no mutating call
\* and reports changed=false; so does the re-run of a task that succeeded.
C7_Idempotent ==
    /\ MatchingRule0 =>
          /\ calls = <<>> /\ changed = FALSE /\ nats = nats0
          /\ pc = "done" => result = "ok"
    /\ (entry = "nat" /\ params.state = "present" /\ run > 1 /\ prev.result = "ok"
        /\ ~check_mode) =>
          /\ calls = <<>> /\ changed = FALSE /\ nats = nats0
          /\ pc = "done" => result = "ok"

C7_Witness ==
    /\ entry = "nat" /\ params.state = "present" /\ run = 2 /\ ~check_mode
    /\ prev.result = "ok" /\ prev.changed
    /\ params.external_ip = NoneVal
    /\ pc = "done" /\ result = "ok" /\ calls = <<>>

\* the rules in the way of the requested one when the invocation started
Conflicts0 ==
    IF MatchingRule0 THEN {}
    ELSE {r \in nats0 : r.internalIp = params.internal_ip
                           \/ r.externalIp = params.external_ip}

RemovedBefore(r, i) ==
    \E j \in 1..(i - 1) : calls[j] = RCall("remove_nat_rule", r.internalIp, r.externalIp)

Range(f) == {f[i] : i \in DOMAIN f}

\* C10: outside check mode every conflicting rule is removed before
\* create_nat_rule is issued; in check mode every conflicting rule is returned
\* and none is removed.
C10_ConflictsRemoved ==
    (entry = "nat" /\ params.state = "present" /\ params.internal_ip # NoneVal) =>
        /\ ~check_mode =>
              \A i \in 1..Len(calls) :
                 calls[i].op = "create_nat_rule" =>
                    \A r \in Conflicts0 : RemovedBefore(r, i)
        /\ (check_mode /\ Conflicts0 # {}) =>
              /\ nats = nats0
              /\ \A i \in 1..Len(calls) : calls[i].op # "remove_nat_rule"
              /\ pc = "done" => result = "ok" /\ Range(loc.return_data) = Conflicts0

C10_Witness ==
    /\ entry = "nat" /\ params.state = "present" /\ ~check_mode
    /\ Cardinality(Conflicts0) = 2
    /\ pc = "done" /\ result = "ok" /\ changed
    /\ calls[Len(calls)].op = "create_nat_rule"

\* ------------------------------------------------------------------------
\* Properties of the release of a public IPv4 block
\* ------------------------------------------------------------------------
\* ipam_public state=absent has found the block it is asked to release, and a
\* NAT rule or a VIP is on one of its addresses (the release changes neither)
IpamReleasingInUse ==
    /\ entry = "ipam_public" /\ params.state = "absent"
    /\ loc # NoLocals
    /\ CheckPublicBlockInUse(nats, vips, loc.public_ipv4_block)

\* ansible_gw state=absent has found the block of the gateway's public
\* address, and with the gateway's own NAT rule gone a NAT rule or a VIP is
\* still on one of its addresses
GwReleasingInUse ==
    /\ entry = "ansible_gw" /\ params.state = "absent"
    /\ "public_ip_block" \in DOMAIN loc
    /\ loc.public_ip_block # NoneVal
    /\ CheckPublicBlockInUse(nats, vips, loc.public_ip_block)

\* C8: the release of a block that a NAT rule or a VIP references always ends
\* in a failure that reports the block in use, in ipam_public state=absent and
\* in the block release of ansible_gw state=absent alike.
C8_AlwaysFails ==
    ((IpamReleasingInUse \/ GwReleasingInUse) /\ pc = "done") =>
        result = "failed" /\ msg = "in use"

\* C9: every remove_public_ipv4 directly follows, in the same invocation, a
\* check_public_block_in_use on that block's baseIp that answered false, with
\* no other mutating call in between.
C9_CheckedBeforeRemove ==
    \A j \in 1..Len(calls) :
        calls[j].op = "remove_public_ipv4" =>
            /\ j > 1
            /\ calls[j - 1] = RCall("check_public_block_in_use", BaseIp(calls[j].arg), 0)

C9_Witness ==
    /\ entry = "ansible_gw" /\ pc = "done"
    /\ Len(calls) >= 3
    /\ calls[Len(calls)].op = "remove_public_ipv4"
    /\ calls[Len(calls) - 2].op = "remove_nat_rule"


\* ------------------------------------------------------------------------
\* Specification of wait_for_server alone, for every variant, flag setting,
\* deadline and interval of the bounded domain, against every remote answer
\* ------------------------------------------------------------------------
WaitEntries ==
    {WaitLocals(v, "NORMAL", f[1], f[2], vm, t, p, "done") :
        v \in WaitVariants, f \in {<<FALSE, FALSE>>, <<TRUE, FALSE>>, <<FALSE, TRUE>>},
        vm \in BOOLEAN, t \in 1..MaxWaitTime, p \in 1..MaxPollInterval}

InitWait ==
    /\ pc = "wait_poll"
    /\ result = "running"
    /\ changed = FALSE
    /\ msg = "none"
    /\ calls = <<>>
    /\ entry = "wait_for_server"
    /\ params = NoParams
    /\ check_mode = FALSE
    /\ loc \in {l \in WaitEntries : l.variant = "ansible_gw" => ~l.wait_for_vmtools}
    /\ nats = {} /\ blocks = {} /\ vips = {} /\ fw = NoneVal /\ gw = NoServer
    /\ nats0 = {} /\ run = 1 /\ prev = NoPrev
    /\ DiskIdle

NextWait ==
    \/ WaitPoll
    \/ WaitReturn

SpecWait == InitWait /\ [][NextWait]_vars

\* ------------------------------------------------------------------------
\* Properties of wait_for_server
\* ------------------------------------------------------------------------
Waiting == entry = "wait_for_server"

LastPoll == loc.polls[Len(loc.polls)]

\* the requested state and the started flag as requested
Primary(r) ==
    /\ r \in Snapshots
    /\ r.state = loc.state
    /\ loc.check_for_start => r.started
    /\ loc.check_for_stop => ~r.started

\* C12: with VMware Tools waiting disabled the wait returns at the first poll
\* whose snapshot has the requested state and started flag; it returns that
\* snapshot and fetches no more.
C12_ReturnsAtFirst ==
    (Waiting /\ ~loc.wait_for_vmtools) =>
        /\ \A i \in 1..Len(loc.polls) :
              Primary(loc.polls[i]) =>
                 /\ i = Len(loc.polls)
                 /\ loc.set_state
                 /\ pc = "done" => result = "ok" /\ loc.data = loc.polls[i]
        /\ (pc = "done" /\ result = "ok") =>
              /\ loc.polls # <<>>
              /\ Primary(LastPoll)

C12_Witness ==
    /\ Waiting /\ ~loc.wait_for_vmtools /\ loc.check_for_start
    /\ loc.variant = "server_disk"
    /\ pc = "done" /\ result = "ok"
    /\ Len(loc.polls) = 3
    /\ loc.polls[1] = Missing
    /\ loc.polls[2].state = "NORMAL" /\ ~loc.polls[2].started
    /\ loc.data = loc.polls[3]

\* C13: when the predicate is never satisfied the wait makes at most
\* ceil(wait_time / wait_poll_interval) fetches and then fails with a timeout
\* error, whatever snapshots are returned, the server missing included.
C13_TimeoutAfterCeil ==
    (Waiting /\ \A i \in 1..Len(loc.polls) : loc.polls[i] # ApiError) =>
        /\ Len(loc.polls) <= Ceil(loc.wait_time, loc.wait_poll_interval)
        /\ pc = "done" => \/ result = "ok"
                          \/ result = "failed" /\ msg = "timeout"

\* C15: the failure reported on a timeout carries the last snapshot fetched.
C15_TimeoutCarriesSnapshot ==
    (Waiting /\ pc = "done" /\ result = "failed" /\ msg = "timeout") =>
        /\ loc.data # NoSnapshot
        /\ loc.data = loc.server

\* C16: an API exception raised by a fetch does not end the wait.
C16_FetchErrorRetried ==
    (Waiting /\ loc.polls # <<>> /\ LastPoll = ApiError) => pc # "done"

\* C18: with VMware Tools waiting enabled, a RUNNING status observed while the
\* requested state and started flag do not hold has no effect: the wait only
\* succeeds on a poll that shows both.
C18_VmtoolsOnlyWithPrimary ==
    (Waiting /\ loc.wait_for_vmtools /\ pc = "done" /\ result = "ok") =>
        Primary(LastPoll) /\ LastPoll.vmTools = "RUNNING"

\* ------------------------------------------------------------------------
\* vip_ssl: main, after the lookups of the certificate, the chain and the
\* profile by name.  The certificate files are present and valid.
\* ------------------------------------------------------------------------
\* lines 560-589: what the lookups found; changes is compare_json's answer
VipLookups == [new_cert : BOOLEAN, new_cert_chain : BOOLEAN, profile : BOOLEAN,
               changes : BOOLEAN]

\* lines 596-599: certificate and chain are imported when not found by name
VipImports(l) ==
    (IF ~l.new_cert THEN <<RCall("import_ssl_cert", NoneVal, NoneVal)>> ELSE <<>>)
    \o (IF ~l.new_cert_chain THEN <<RCall("import_ssl_cert_chain", NoneVal, NoneVal)>>
        ELSE <<>>)

\* lines 591-606: state == 'present'
VipSslPresent ==
    /\ pc = "vip_present"
    /\ IF check_mode /\ ~loc.profile
       THEN Exit("ok", FALSE, "will be created") /\ UNCHANGED calls
       ELSE IF ~loc.profile
       THEN /\ calls' = calls \o VipImports(loc)
                              \o <<RCall("create_ssl_offload_profile", NoneVal, NoneVal)>>
            /\ Exit("ok", TRUE, "none")
       ELSE IF check_mode
       THEN \* compare_ssl_profile, line 436
            /\ calls' = calls \o VipImports(loc)
            /\ Exit("ok", FALSE, "none")
       ELSE IF loc.changes
       THEN /\ calls' = calls \o VipImports(loc)
                              \o <<RCall("update_ssl_offload_profile", NoneVal, NoneVal)>>
            /\ Exit("ok", TRUE, "none")
       ELSE /\ calls' = calls \o VipImports(loc)
            /\ Exit("ok", FALSE, "none")
    /\ UNCHANGED <<loc, nats, blocks, vips, fw, gw, nats0, run, prev>>
    /\ UNCHANGED <<entry, params, check_mode>>
    /\ UNCHANGED diskVars

\* lines 607-613: state == 'absent'; delete_ssl_profile removes the profile and
\* then the certificate and the chain no other profile uses
VipSslAbsent ==
    /\ pc = "vip_absent"
    /\ IF ~loc.profile
       THEN Exit("ok", FALSE, "not found") /\ UNCHANGED calls
       ELSE IF check_mode
       THEN Exit("ok", FALSE, "will be deleted") /\ UNCHANGED calls
       ELSE \E cert_used, chain_used \in BOOLEAN :
               /\ calls' = calls \o <<RCall("remove_ssl", "profile", NoneVal)>>
                    \o (IF cert_used THEN <<>>
                        ELSE <<RCall("remove_ssl", "certificate", NoneVal)>>)
                    \o (IF chain_used THEN <<>>
                        ELSE <<RCall("remove_ssl", "chain", NoneVal)>>)
               /\ Exit("ok", TRUE, "removed")
    /\ UNCHANGED <<loc, nats, blocks, vips, fw, gw, nats0, run, prev>>
    /\ UNCHANGED <<entry, params, check_mode>>
    /\ UNCHANGED diskVars

InitVipSsl ==
    /\ entry = "vip_ssl"
    /\ params \in [state : {"present", "absent"}]
    /\ pc = IF params.state = "present" THEN "vip_present" ELSE "vip_absent"
    /\ result = "running"
    /\ changed = FALSE
    /\ msg = "none"
    /\ calls = <<>>
    /\ check_mode \in BOOLEAN
    /\ loc \in VipLookups
    /\ (params.state = "absent" \/ ~loc.profile) => ~loc.changes
    /\ nats = {} /\ blocks = {} /\ vips = {} /\ fw = NoneVal /\ gw = NoServer
    /\ nats0 = {} /\ run = 1 /\ prev = NoPrev
    /\ DiskIdle

\* ------------------------------------------------------------------------
\* Specification of the modules with a check mode whose state=present looks
\* up, then allocates or imports: nat and vip_ssl
\* ------------------------------------------------------------------------
InitCheckMode == InitNat \/ InitVipSsl

NextCheckMode ==
    \/ NatLookup
    \/ NatRemove
    \/ NatAllocate
    \/ NatCreate
    \/ NatDeleteLookup
    \/ NatDelete
    \/ VipSslPresent
    \/ VipSslAbsent

SpecCheckMode == InitCheckMode /\ [][NextCheckMode]_vars

\* the remote calls that only read
ReadOps == {"check_public_block_in_use", "list_servers", "get_server_by_name",
            "get_server_by_id", "list_image", "get_nat_by_private_ip",
            "get_fw_rule_by_name"}

\* C11: in check mode no module issues a mutating remote call, and the remote
\* system is left as it was.
C11_CheckModeReadOnly ==
    check_mode =>
        /\ \A i \in 1..Len(calls) : calls[i].op \in ReadOps
        /\ entry = "nat" => nats = nats0

\* ------------------------------------------------------------------------
\* The polling waits of snapshot_restore (wait_for_snapshot) and of
\* snapshot_service (disable_replication).  A fetch answers with the state
\* of the server (of its snapshot service), with no server, or raises.
\* ------------------------------------------------------------------------
SnapResponses == {"NORMAL", "PENDING_CHANGE", "missing", "error"}

\* the locals of either wait loop; server = "" is the value before the first fetch
SnapLocals(wait_time, wait_poll_interval) ==
    [wait_time |-> wait_time, wait_poll_interval |-> wait_poll_interval,
     state |-> "NORMAL", set_state |-> FALSE, actual_state |-> "None",
     time |-> 0, server |-> ""]

\* snapshot_restore main, lines 234-252: the restore and the decision to wait
SnapshotRestore ==
    /\ pc = "restore_main"
    /\ \E snapshot, server_id \in BOOLEAN :
          IF ~snapshot
          THEN Exit("failed", FALSE, "snapshot does not exist") /\ UNCHANGED calls
          ELSE IF check_mode
          THEN Exit("ok", FALSE, "will be performed") /\ UNCHANGED calls
          ELSE /\ calls' = Append(calls, RCall("snapshot_restore", NoneVal, NoneVal))
               /\ IF ~params.wait
                  THEN Exit("ok", TRUE, "in progress")
                  ELSE IF ~server_id
                  THEN Exit("failed", FALSE, "could not find the server")
                  ELSE pc' = "snap_poll" /\ UNCHANGED <<result, changed, msg>>
    /\ UNCHANGED <<loc, nats, blocks, vips, fw, gw, nats0, run, prev>>
    /\ UNCHANGED <<entry, params, check_mode>>
    /\ UNCHANGED diskVars

\* wait_for_snapshot, lines 169-184: one iteration of the loop
WaitForSnapshotPoll ==
    /\ pc = "snap_poll"
    /\ ~loc.set_state /\ loc.time < loc.wait_time
    /\ \E r \in SnapResponses :
          /\ calls' = Append(calls, RCall("get_server_by_id", NoneVal, NoneVal))
          /\ IF r = "error"
             THEN \* fail_json(msg='Failed to check the server')
                  Exit("failed", FALSE, "fetch failed") /\ loc' = loc
             ELSE IF r = "missing"
             THEN \* None.get: AttributeError, caught by main at line 254
                  Exit("failed", FALSE, "error restoring") /\ loc' = loc
             ELSE /\ loc' = [loc EXCEPT
                               !.server = r,
                               !.actual_state = r,
                               !.time = IF r # loc.state
                                        THEN loc.time + loc.wait_poll_interval
                                        ELSE loc.time,
                               !.set_state = (r = loc.state)]
                  /\ UNCHANGED <<pc, result, changed, msg>>
    /\ UNCHANGED <<nats, blocks, vips, fw, gw, nats0, run, prev>>
    /\ UNCHANGED <<entry, params, check_mode>>
    /\ UNCHANGED diskVars

\* main, lines 249-250: the value wait_for_snapshot returns is not looked at
RestoreOutcome(wait_result) == "ok"

\* wait_for_snapshot, lines 186-189, and main, line 250
WaitForSnapshotReturn ==
    /\ pc = "snap_poll"
    /\ loc.set_state \/ loc.time >= loc.wait_time
    /\ LET wait_result == ~(loc.server # "" /\ loc.time >= loc.wait_time)
       IN IF RestoreOutcome(wait_result) = "ok"
          THEN Exit("ok", TRUE, "restored")
          ELSE Exit("failed", FALSE, "timeout")
    /\ UNCHANGED <<calls, loc, nats, blocks, vips, fw, gw, nats0, run, prev>>
    /\ UNCHANGED <<entry, params, check_mode>>
    /\ UNCHANGED diskVars

\* snapshot_service main, lines 492-498, and disable_replication, lines 299-302
DisableReplication ==
    /\ pc = "repl_main"
    /\ \E snapshotService, in_progress \in BOOLEAN :
          IF ~snapshotService
          THEN Exit("ok", FALSE, "not configured") /\ UNCHANGED calls
          ELSE IF check_mode
          THEN Exit("ok", FALSE, "will be removed") /\ UNCHANGED calls
          ELSE /\ calls' = Append(calls,
                                  RCall("disable_snapshot_replication", NoneVal, NoneVal))
               /\ IF in_progress
                  THEN pc' = "repl_poll" /\ UNCHANGED <<result, changed, msg>>
                  ELSE Exit("failed", FALSE, "failed to disable")
    /\ UNCHANGED <<loc, nats, blocks, vips, fw, gw, nats0, run, prev>>
    /\ UNCHANGED <<entry, params, check_mode>>
    /\ UNCHANGED diskVars

\* disable_replication, lines 304-319: one iteration of the loop; a fetch that
\* raises leaves the server of the poll before (none on the first poll)
ReplicationPoll ==
    /\ pc = "repl_poll"
    /\ ~loc.set_state /\ loc.time < loc.wait_time
    /\ \E r \in SnapResponses :
          LET server == IF r = "error" THEN loc.server ELSE r
          IN /\ calls' = Append(calls, RCall("get_server_by_id", NoneVal, NoneVal))
             /\ IF server = ""
                THEN \* server is not bound: UnboundLocalError, not caught
                     Exit("crash", FALSE, "none") /\ loc' = loc
                ELSE IF server = "missing"
                THEN \* None.get: AttributeError, not caught
                     Exit("crash", FALSE, "none") /\ loc' = [loc EXCEPT !.server = server]
                ELSE /\ loc' = [loc EXCEPT
                                  !.server = server,
                                  !.actual_state = server,
                                  !.time = IF server # loc.state
                                           THEN loc.time + loc.wait_poll_interval
                                           ELSE loc.time,
                                  !.set_state = (server = loc.state)]
                     /\ UNCHANGED <<pc, result, changed, msg>>
    /\ UNCHANGED <<nats, blocks, vips, fw, gw, nats0, run, prev>>
    /\ UNCHANGED <<entry, params, check_mode>>
    /\ UNCHANGED diskVars

\* the loop is left, disable_replication returns, main exits at line 501
ReplicationReturn ==
    /\ pc = "repl_poll"
    /\ loc.set_state \/ loc.time >= loc.wait_time
    /\ Exit("ok", FALSE, "replication disabled")
    /\ UNCHANGED <<calls, loc, nats, blocks, vips, fw, gw, nats0, run, prev>>
    /\ UNCHANGED <<entry, params, check_mode>>
    /\ UNCHANGED diskVars

InitSnapWait ==
    /\ result = "running"
    /\ changed = FALSE
    /\ msg = "none"
    /\ calls = <<>>
    /\ check_mode \in BOOLEAN
    /\ \/ /\ entry = "snapshot_restore"
          /\ pc = "restore_main"
          /\ params \in [wait : BOOLEAN, wait_time : 1..MaxWaitTime,
                         wait_poll_interval : 1..MaxPollInterval]
          /\ loc = SnapLocals(params.wait_time, params.wait_poll_interval)
       \/ /\ entry = "snapshot_service"
          /\ pc = "repl_main"
          /\ params = [state |-> "absent", replication |-> TRUE]
          /\ loc = SnapLocals(REPL_WAIT_TIME, REPL_POLL_INTERVAL)
    /\ nats = {} /\ blocks = {} /\ vips = {} /\ fw = NoneVal /\ gw = NoServer
    /\ nats0 = {} /\ run = 1 /\ prev = NoPrev
    /\ DiskIdle

NextSnapWait ==
    \/ SnapshotRestore
    \/ WaitForSnapshotPoll
    \/ WaitForSnapshotReturn
    \/ DisableReplication
    \/ ReplicationPoll
    \/ ReplicationReturn

SpecSnapWait == InitSnapWait /\ [][NextSnapWait]_vars

\* C14: no polling wait swallows a timeout: when the deadline elapses without
\* the awaited state having been observed, the invocation ends in failure.
C14_TimeoutNotSwallowed ==
    (/\ entry \in {"snapshot_restore", "snapshot_service"}
     /\ pc = "done"
     /\ ~loc.set_state
     /\ loc.time >= loc.wait_time) => result \notin {"ok"}

InitGwDelete ==
    /\ pc = "gwdel_start"
    /\ result = "running"
    /\ changed = FALSE
    /\ msg = "none"
    /\ calls = <<>>
    /\ entry = "delete_server"
    /\ params \in [state : {"absent"}, wait : BOOLEAN, wait_time : 1..MaxWaitTime,
                   wait_poll_interval : 1..MaxPollInterval]
    /\ check_mode = FALSE
    /\ gw \in [privateIpv4 : IntIps, started : BOOLEAN]
    /\ loc = NoLocals
    /\ nats = {} /\ blocks = {} /\ vips = {} /\ fw = NoneVal
    /\ nats0 = {} /\ run = 1 /\ prev = NoPrev
    /\ DiskIdle

NextGwDelete ==
    \/ GwShutdown
    \/ WaitPoll
    \/ WaitReturn
    \/ GwDeleteCall
    \/ GwDeletePoll
    \/ GwDeleteReturn

SpecGwDelete == InitGwDelete /\ [][NextGwDelete]_vars

\* the invocation is in, or has ended in, the delete wait
InDeleteWait ==
    /\ entry = "delete_server"
    /\ pc \in {"gwdel_poll", "done"}
    /\ "server_exists" \in DOMAIN loc
    /\ params.wait

\* C17: the delete wait succeeds at the first poll in which the server is
\* absent from list_servers, whatever earlier polls showed, and reports no
\* timeout for it even when that poll is the last one before the deadline.
C17_AbsentEndsWait ==
    InDeleteWait =>
        \A i \in 1..Len(loc.polls) :
            loc.polls[i] = "absent" =>
                /\ i = Len(loc.polls)
                /\ ~loc.server_exists
                /\ pc = "done" => result = "ok"

C17_Witness ==
    /\ InDeleteWait
    /\ pc = "done" /\ result = "ok"
    /\ Len(loc.polls) = 3
    /\ loc.polls[1] = "NORMAL" /\ loc.polls[2] = "PENDING_DELETE"
    /\ loc.polls[3] = "absent"
    /\ loc.time >= loc.wait_time

\* ------------------------------------------------------------------------
\* ansible_gw state=present with no existing server: create_server and its
\* wait, then the NAT rule and the firewall rule
\* ------------------------------------------------------------------------
\* faulty variant: the wait after create_server does not ask for a started server
CreateServerWait_NoStartCheck(wait_time, wait_poll_interval) ==
    WaitLocals("ansible_gw", "NORMAL", FALSE, FALSE, FALSE,
               wait_time, wait_poll_interval, "gw_ensure_nat")

\* line 420: wait_for_server(..., 'NORMAL', True, False, None)
CreateServerWait(wait_time, wait_poll_interval) ==
    WaitLocals("ansible_gw", "NORMAL", TRUE, FALSE, FALSE,
               wait_time, wait_poll_interval, "gw_ensure_nat")

\* create_server, lines 409-420: the image lookup, client.create_server, the wait
GwCreateServer ==
    /\ pc = "gw_present"
    /\ gw = NoServer
    /\ \E outcome \in {"ok", "no_image", "create_failed"}, ip \in IntIps :
          LET list_image == RCall("list_image", NoneVal, NoneVal)
              create_server == RCall("create_server", NoneVal, NoneVal)
          IN IF outcome = "no_image"
             THEN /\ calls' = Append(calls, list_image)
                  /\ Exit("failed", FALSE, "image not found")
                  /\ UNCHANGED <<gw, loc>>
             ELSE IF outcome = "create_failed"
             THEN /\ calls' = calls \o <<list_image, create_server>>
                  /\ Exit("failed", FALSE, "could not create the server")
                  /\ UNCHANGED <<gw, loc>>
             ELSE /\ calls' = calls \o <<list_image, create_server>>
                  /\ gw' = [privateIpv4 |-> ip, started |-> FALSE]
                  /\ loc' = CreateServerWait(params.wait_time, params.wait_poll_interval)
                  /\ pc' = "wait_poll"
                  /\ UNCHANGED <<result, changed, msg>>
    /\ UNCHANGED <<nats, blocks, vips, fw, nats0, run, prev>>
    /\ UNCHANGED <<entry, params, check_mode>>
    /\ UNCHANGED diskVars

\* main, lines 802-812: the NAT rule of the server's private address is looked
\* up; without one a public address is allocated and the rule created
GwEnsureNat ==
    /\ pc = "gw_ensure_nat"
    /\ LET private == gw.privateIpv4
           nat_result == GetNatByPrivateIp(nats, private)
           free == FreeIps(blocks, nats, vips)
           nb == NextBlock(blocks)
           public_ipv4 == IF nat_result # NoRule THEN nat_result.externalIp
                          ELSE IF free # {} THEN SetMin(free)
                          ELSE IF nb # NoneVal THEN BaseIp(nb) ELSE NoneVal
           lookup == RCall("get_nat_by_private_ip", private, NoneVal)
           locals == [ansible_gw |-> loc.data, nat_result |-> nat_result,
                      public_ipv4 |-> public_ipv4, fw_result |-> NoneVal]
       IN /\ loc' = locals
          /\ IF nat_result # NoRule
             THEN /\ calls' = Append(calls, lookup)
                  /\ changed' = TRUE
                  /\ pc' = "gw_ensure_fw"
                  /\ UNCHANGED <<result, msg, nats, blocks>>
             ELSE IF public_ipv4 = NoneVal
             THEN /\ calls' = Append(calls, lookup)
                  /\ Exit("failed", TRUE, "could not allocate")
                  /\ UNCHANGED <<nats, blocks>>
             ELSE /\ calls' = calls \o <<lookup>>
                       \o (IF free = {} THEN <<RCall("add_public_ipv4", nb, NoneVal)>>
                           ELSE <<>>)
                       \o <<RCall("create_nat_rule", private, public_ipv4)>>
                  /\ blocks' = IF free = {} THEN blocks \cup {nb} ELSE blocks
                  /\ nats' = nats \cup {Rule(private, public_ipv4)}
                  /\ changed' = TRUE
                  /\ pc' = "gw_ensure_fw"
                  /\ UNCHANGED <<result, msg>>
    /\ UNCHANGED <<vips, fw, gw, nats0, run, prev>>
    /\ UNCHANGED <<entry, params, check_mode>>
    /\ UNCHANGED diskVars

\* main, lines 813-824: the firewall rule is updated, or created when missing
GwEnsureFw ==
    /\ pc = "gw_ensure_fw"
    /\ calls' = calls \o <<RCall("get_fw_rule_by_name", NoneVal, NoneVal),
                           RCall(IF fw # NoneVal THEN "update_fw_rule"
                                 ELSE "create_fw_rule", loc.public_ipv4, NoneVal)>>
    /\ fw' = loc.public_ipv4
    /\ loc' = [loc EXCEPT !.fw_result = fw]
    /\ changed' = TRUE
    /\ pc' = "gw_settle"
    /\ UNCHANGED <<result, msg, nats, blocks, vips, gw, nats0, run, prev>>
    /\ UNCHANGED <<entry, params, check_mode>>
    /\ UNCHANGED diskVars

\* main, lines 825-826: sleep(10) with the firewall rule written, then
\* exit_json(changed=changed)
GwSettle ==
    /\ pc = "gw_settle"
    /\ Exit("ok", changed, "none")
    /\ UNCHANGED <<calls, loc, nats, blocks, vips, fw, gw, nats0, run, prev>>
    /\ UNCHANGED <<entry, params, check_mode>>
    /\ UNCHANGED diskVars

\* a network domain with at most one NAT rule
InitGwCreate ==
    /\ pc = "gw_present"
    /\ result = "running"
    /\ changed = FALSE
    /\ msg = "none"
    /\ calls = <<>>
    /\ entry = "ansible_gw"
    /\ params \in [state : {"present"}, wait_time : {MaxWaitTime},
                   wait_poll_interval : 1..MaxPollInterval]
    /\ check_mode = FALSE
    /\ blocks \in SUBSET (1..NumBlocks)
    /\ nats \in {ns \in SUBSET AllRules(blocks) : Cardinality(ns) <= 1}
    /\ vips \in {{}} \cup {{v} : v \in {ip \in OwnedIps(blocks) :
                                           \A r \in nats : r.externalIp # ip}}
    /\ nats0 = nats
    /\ fw \in ExtIps \cup {NoneVal}
    /\ gw = NoServer
    /\ loc = NoLocals
    /\ run = 1 /\ prev = NoPrev
    /\ DiskIdle

NextGwCreate ==
    \/ GwCreateServer
    \/ WaitPoll
    \/ WaitReturn
    \/ GwEnsureNat
    \/ GwEnsureFw
    \/ GwSettle

SpecGwCreate == InitGwCreate /\ [][NextGwCreate]_vars

\* the place of a remote call in the creation of the gateway
Phase(op) ==
    CASE op = "list_image" -> 0
      [] op = "create_server" -> 1
      [] op = "get_server_by_name" -> 2
      [] op \in {"get_nat_by_private_ip", "add_public_ipv4", "create_nat_rule"} -> 3
      [] op \in {"get_fw_rule_by_name", "update_fw_rule", "create_fw_rule"} -> 4
      [] OTHER -> 5

Creating == entry = "ansible_gw" /\ params.state = "present"

\* C19: the calls come in the order create_server, the polls of the wait, the
\* NAT lookup and creation, the firewall lookup and creation; a NAT or
\* firewall call is only issued after a poll showed the server NORMAL and
\* started.
C19_CreateOrder ==
    Creating =>
        /\ \A i, j \in 1..Len(calls) :
              i < j => Phase(calls[i].op) <= Phase(calls[j].op)
        /\ \A j \in 1..Len(calls) :
              Phase(calls[j].op) >= 3 =>
                 /\ \E i \in 1..(j - 1) : calls[i].op = "create_server"
                 /\ \E i \in 1..(j - 1) : calls[i].op = "get_server_by_name"
                 /\ loc.ansible_gw.state = "NORMAL"
                 /\ loc.ansible_gw.started

C19_Witness ==
    /\ Creating
    /\ pc = "done" /\ result = "ok"
    /\ Len(calls) = 9
    /\ calls[3].op = "get_server_by_name" /\ calls[4].op = "get_server_by_name"
    /\ calls[6].op = "add_public_ipv4"
    /\ calls[7].op = "create_nat_rule"
    /\ calls[9].op = "create_fw_rule"

\* ------------------------------------------------------------------------
\* The order in which ansible_gw state=absent releases the gateway
\* ------------------------------------------------------------------------
Releasing == entry = "ansible_gw" /\ params.state = "absent"

\* the place of a call in the reverse of the creation order
ReversePhase(op) ==
    CASE op = "remove_fw_rule" -> 0
      [] op = "remove_nat_rule" -> 1
      [] op \in {"shutdown_server", "delete_server"} -> 2
      [] op = "check_public_block_in_use" -> 3
      [] op = "remove_public_ipv4" -> 4
      [] OTHER -> 5

\* the place of a call in the order of main, lines 829-864
ReleasePhase(op) ==
    CASE op \in {"shutdown_server", "delete_server"} -> 0
      [] op = "remove_fw_rule" -> 1
      [] op = "remove_nat_rule" -> 2
      [] op = "check_public_block_in_use" -> 3
      [] op = "remove_public_ipv4" -> 4
      [] OTHER -> 5

\* the calls that release something or guard a release (the fetches of the
\* waits left out), in the order of their issue
IsReleaseCall(c) == ReleasePhase(c.op) < 5
ReleaseCalls == SelectSeq(calls, IsReleaseCall)

\* C20 as stated: the firewall rule goes first, then the NAT rule, then the
\* server, and the public IPv4 block last behind the in-use check.
C20_ReverseOrder ==
    Releasing =>
        \A i, j \in 1..Len(ReleaseCalls) :
            i < j => ReversePhase(ReleaseCalls[i].op) < ReversePhase(ReleaseCalls[j].op)
                     \/ (ReversePhase(ReleaseCalls[i].op) = 2
                         /\ ReversePhase(ReleaseCalls[j].op) = 2)

\* C20 as the code has it: the server is deleted first, then the firewall
\* rule, then the NAT rule; the public IPv4 block is released last, directly
\* behind an in-use check that answered false.  An existing server is deleted
\* before any other resource is touched.
C20_ReleaseOrder ==
    Releasing =>
        /\ \A i, j \in 1..Len(ReleaseCalls) :
              i < j => ReleasePhase(ReleaseCalls[i].op) < ReleasePhase(ReleaseCalls[j].op)
                       \/ (ReleaseCalls[i].op = "shutdown_server"
                           /\ ReleaseCalls[j].op = "delete_server")
        /\ \A j \in 1..Len(calls) :
              /\ (ReleasePhase(calls[j].op) \in 1..4 /\ loc.ansible_gw # NoServer) =>
                    \E i \in 1..(j - 1) : calls[i].op = "delete_server"
              /\ calls[j].op = "remove_public_ipv4" =>
                    /\ j = Len(calls)
                    /\ calls[j - 1].op = "check_public_block_in_use"
                    /\ calls[j - 1].res = 0

C20_Witness ==
    /\ Releasing
    /\ pc = "done" /\ result = "ok"
    /\ Len(ReleaseCalls) = 6
    /\ ReleaseCalls[1].op = "shutdown_server"
    /\ ReleaseCalls[2].op = "delete_server"
    /\ ReleaseCalls[3].op = "remove_fw_rule"
    /\ ReleaseCalls[4].op = "remove_nat_rule"
    /\ ReleaseCalls[5].op = "check_public_block_in_use"
    /\ ReleaseCalls[6].op = "remove_public_ipv4"
    /\ Len(calls) = 10
    /\ calls[2].op = "get_server_by_name" /\ calls[3].op = "get_server_by_name"
    /\ calls[5].op = "list_servers" /\ calls[6].op = "list_servers"

\* ------------------------------------------------------------------------
\* server_controller main (state=present and state=absent) and server_disk
\* main with state=absent: the stop, the change, the restart and the exit.
\* disk holds what get_controller or get_disk found (NoDisk: nothing).
\* ------------------------------------------------------------------------
FoundItem == [sizeGb |-> 1, iops |-> NoneVal, speed |-> "STANDARD"]

\* "if wait:" behind the remote call (server_controller 580, 632, 669;
\* server_disk 970, 1008)
WaitAfter(wait) == wait

\* the call that changes the server's hardware
ChangeOp ==
    IF entry = "server_disk" THEN "remove_disk"
    ELSE IF params.state = "present" THEN "add_controller" ELSE "remove_controller"

\* server_controller main 826-840 and 849-867, server_disk main 1213-1228:
\* the lookup, check mode, and the stop of a running server
CtlMain ==
    /\ pc = "ctl_main"
    /\ IF params.state = "present" /\ disk # NoDisk
       THEN /\ pc' = "done" /\ result' = "ok" /\ changed' = FALSE
            /\ UNCHANGED <<ret, calls, server_running, await>>
       ELSE IF params.state = "absent" /\ disk = NoDisk
       THEN /\ pc' = "done" /\ result' = "failed"
            /\ UNCHANGED <<ret, calls, server_running, await, changed>>
       ELSE IF check_mode
       THEN /\ pc' = "done" /\ result' = "ok"
            /\ UNCHANGED <<ret, calls, server_running, await, changed>>
       ELSE IF server_running /\ params.stop
       THEN /\ calls' = Append(calls, Call("shutdown_server", NoneVal, NoneVal))
            /\ server_running' = FALSE
            /\ IF WaitAfter(params.wait)
               THEN pc' = "wait" /\ ret' = "ctl_change" /\ await' = "stop"
               ELSE pc' = "ctl_change" /\ ret' = ret /\ await' = await
            /\ UNCHANGED <<result, changed>>
       ELSE IF server_running /\ ~params.stop
       THEN /\ pc' = "done" /\ result' = "failed"
            /\ UNCHANGED <<ret, calls, server_running, await, changed>>
       ELSE /\ pc' = "ctl_change"
            /\ UNCHANGED <<ret, result, calls, server_running, await, changed>>
    /\ UNCHANGED <<new_disk_size, new_disk_iops, rsize, riops, rspeed, rstarted>>
    /\ UNCHANGED planVars
    /\ UNCHANGED inputVars
    /\ UNCHANGED sharedVars

\* add_controller 578-581, remove_controller 630-633, remove_disk 968-972:
\* the remote item (rsize, riops, rspeed) is there after an addition and gone
\* after a removal
CtlChange ==
    /\ pc = "ctl_change"
    /\ calls' = Append(calls, Call(ChangeOp, NoneVal, NoneVal))
    /\ LET item == IF ChangeOp = "add_controller" THEN FoundItem ELSE NoDisk
       IN /\ rsize' = item.sizeGb
          /\ riops' = item.iops
          /\ rspeed' = item.speed
    /\ IF WaitAfter(params.wait)
       THEN pc' = "wait" /\ ret' = "ctl_start" /\ await' = "none"
       ELSE pc' = "ctl_start" /\ ret' = ret /\ await' = await
    /\ UNCHANGED <<result, changed, server_running>>
    /\ UNCHANGED <<new_disk_size, new_disk_iops, rstarted>>
    /\ UNCHANGED planVars
    /\ UNCHANGED inputVars
    /\ UNCHANGED sharedVars

\* server_controller main 844-845 and 870-871; server_disk main 1231-1238,
\* which reads the started flag again before it decides on the start.  A
\* shutdown that was not waited for may or may not have completed by then.
CtlStart ==
    /\ pc = "ctl_start"
    /\ \E refetched \in BOOLEAN, found \in BOOLEAN :
          /\ refetched \in (IF ~params.wait /\ calls[1].op = "shutdown_server"
                            THEN BOOLEAN ELSE {rstarted})
          /\ entry # "server_disk" => found
          /\ LET running == IF entry = "server_disk" THEN refetched ELSE server_running
             IN IF ~found
                THEN /\ pc' = "done" /\ result' = "failed"
                     /\ UNCHANGED <<ret, calls, server_running, await, rstarted>>
                ELSE /\ server_running' = running
                     /\ rstarted' = IF entry = "server_disk" THEN refetched ELSE rstarted
                     /\ result' = result
                     /\ IF params.start /\ ~running
                        THEN /\ calls' = Append(calls, Call("start_server", NoneVal, NoneVal))
                             /\ IF WaitAfter(params.wait)
                                THEN pc' = "wait" /\ ret' = "ctl_exit" /\ await' = "start"
                                ELSE pc' = "ctl_exit" /\ ret' = ret /\ await' = await
                        ELSE /\ pc' = "ctl_exit"
                             /\ UNCHANGED <<ret, calls, await>>
    /\ UNCHANGED <<changed, new_disk_size, new_disk_iops, rsize, riops, rspeed>>
    /\ UNCHANGED planVars
    /\ UNCHANGED inputVars
    /\ UNCHANGED sharedVars

\* server_controller main 846-847 and 872-873, server_disk main 1239-1240
CtlExit ==
    /\ pc = "ctl_exit"
    /\ pc' = "done"
    /\ result' = "ok"
    /\ changed' = TRUE
    /\ UNCHANGED <<ret, calls, new_disk_size, new_disk_iops, rsize, riops, rspeed,
                   server_running, await, rstarted>>
    /\ UNCHANGED planVars
    /\ UNCHANGED inputVars
    /\ UNCHANGED sharedVars

InitCtl ==
    /\ pc = "ctl_main"
    /\ ret = "none"
    /\ result = "running"
    /\ calls = <<>>
    /\ \/ /\ entry = "server_controller"
          /\ params \in [state : {"present", "absent"}, stop : BOOLEAN, start : BOOLEAN,
                         wait : BOOLEAN, wait_time : DiskWaitTimes,
                         wait_poll_interval : DiskPollIntervals]
       \/ /\ entry = "server_disk"
          /\ params \in [state : {"absent"}, stop : BOOLEAN, start : BOOLEAN,
                         wait : BOOLEAN, wait_for_vmtools : BOOLEAN, wait_time : DiskWaitTimes,
                         wait_poll_interval : DiskPollIntervals]
    /\ disk \in {NoDisk, FoundItem}
    /\ rsize = disk.sizeGb
    /\ riops = disk.iops
    /\ rspeed = disk.speed
    /\ check_mode \in BOOLEAN
    /\ server_running \in BOOLEAN
    /\ rstarted = server_running
    /\ await = "none"
    /\ changed = FALSE
    /\ SharedIdle
    /\ new_disk_size = NoneVal /\ new_disk_iops = NoneVal
    /\ current_size = NoneVal /\ current_iops = NoneVal
    /\ final_size = NoneVal /\ final_iops = NoneVal
    /\ iter_size = NoneVal /\ iter_iops = NoneVal

\* server_disk state=present together with the flows above
InitServerOps == InitDisk \/ InitCtl

NextServerOps ==
    \/ MainPresent
    \/ AddDisk
    \/ UpdateDiskSpeed
    \/ UpdateDiskResize
    \/ ExpandPiopsDisk
    \/ PiopsIopsStep
    \/ PiopsSizeStep
    \/ PiopsReturn
    \/ WaitForServer
    \/ StartServer
    \/ MainExit
    \/ CtlMain
    \/ CtlChange
    \/ CtlStart
    \/ CtlExit

SpecServerOps == InitServerOps /\ [][NextServerOps]_vars

\* a step that issues a state-changing remote call
CallIssued == Len(calls') = Len(calls) + 1

\* a step that leaves wait_for_server
WaitLeft == pc = "wait" /\ pc' # "wait"

\* C21: for every combination of the wait, stop and start parameters, every
\* state-changing call is directly followed by a wait_for_server, which the
\* invocation passes only when it succeeded (it ends the invocation
\* otherwise, by fail_json or by the IndexError of its return); so no success
\* is reported without a successful wait behind the call.
C21_AlwaysWaits ==
    [][/\ CallIssued => pc' = "wait"
       /\ WaitLeft => (pc' = ret \/ (pc' = "done" /\ result' \in {"failed", "crash"}))]_vars

\* ------------------------------------------------------------------------
\* ansible_gw state=present on an existing gateway server (a playbook re-run)
\* ------------------------------------------------------------------------
\* main, lines 774-783: the NAT rule of the server's private address is looked
\* up; without one a public address is allocated and the rule created
GwExistingNat ==
    /\ pc = "gw_present"
    /\ gw # NoServer
    /\ LET private == gw.privateIpv4
           nat_result == GetNatByPrivateIp(nats, private)
           free == FreeIps(blocks, nats, vips)
           nb == NextBlock(blocks)
           public_ipv4 == IF nat_result # NoRule THEN nat_result.externalIp
                          ELSE IF free # {} THEN SetMin(free)
                          ELSE IF nb # NoneVal THEN BaseIp(nb) ELSE NoneVal
           lookup == RCall("get_nat_by_private_ip", private, NoneVal)
           locals == [ansible_gw |-> gw, nat_result |-> nat_result,
                      public_ipv4 |-> public_ipv4, fw_result |-> NoneVal]
       IN /\ loc' = locals
          /\ IF nat_result # NoRule
             THEN /\ calls' = Append(calls, lookup)
                  /\ pc' = "gw_existing_fw"
                  /\ UNCHANGED <<result, changed, msg, nats, blocks>>
             ELSE IF public_ipv4 = NoneVal
             THEN /\ calls' = Append(calls, lookup)
                  /\ Exit("failed", FALSE, "could not allocate")
                  /\ UNCHANGED <<nats, blocks>>
             ELSE /\ calls' = calls \o <<lookup>>
                       \o (IF free = {} THEN <<RCall("add_public_ipv4", nb, NoneVal)>>
                           ELSE <<>>)
                       \o <<RCall("create_nat_rule", private, public_ipv4)>>
                  /\ blocks' = IF free = {} THEN blocks \cup {nb} ELSE blocks
                  /\ nats' = nats \cup {Rule(private, public_ipv4)}
                  /\ changed' = TRUE
                  /\ pc' = "gw_existing_fw"
                  /\ UNCHANGED <<result, msg>>
    /\ UNCHANGED <<vips, fw, gw, nats0, run, prev>>
    /\ UNCHANGED <<entry, params, check_mode>>
    /\ UNCHANGED diskVars

\* main, lines 785-797: an existing firewall rule is handed to update_fw_rule,
\* which always calls client.update_fw_rule; a missing one is created
GwExistingFw ==
    /\ pc = "gw_existing_fw"
    /\ calls' = calls \o <<RCall("get_fw_rule_by_name", NoneVal, NoneVal),
                           RCall(IF fw # NoneVal THEN "update_fw_rule"
                                 ELSE "create_fw_rule", loc.public_ipv4, NoneVal)>>
    /\ fw' = loc.public_ipv4
    /\ loc' = [loc EXCEPT !.fw_result = fw]
    /\ Exit("ok", IF fw # NoneVal THEN changed ELSE TRUE, "none")
    /\ UNCHANGED <<nats, blocks, vips, gw, nats0, run, prev>>
    /\ UNCHANGED <<entry, params, check_mode>>
    /\ UNCHANGED diskVars

InitGwExisting ==
    /\ pc = "gw_present"
    /\ result = "running"
    /\ changed = FALSE
    /\ msg = "none"
    /\ calls = <<>>
    /\ entry = "ansible_gw"
    /\ params \in [state : {"present"}, wait_time : {MaxWaitTime},
                   wait_poll_interval : 1..MaxPollInterval]
    /\ check_mode = FALSE
    /\ InitRemote
    /\ fw \in ExtIps \cup {NoneVal}
    /\ gw \in [privateIpv4 : IntIps, started : BOOLEAN]
    /\ loc = NoLocals
    /\ run = 1 /\ prev = NoPrev
    /\ DiskIdle

NextGwExisting ==
    \/ GwExistingNat
    \/ GwExistingFw

SpecGwExisting == InitGwExisting /\ [][NextGwExisting]_vars

MutatingCalls == {i \in 1..Len(calls) : calls[i].op \notin ReadOps}

\* the server, a NAT rule for its private address and a firewall rule towards
\* that rule's public address existed when the invocation started
GwInPlace ==
    /\ entry = "ansible_gw" /\ params.state = "present"
    /\ pc = "done"
    /\ loc.ansible_gw # NoServer
    /\ \E r \in nats0 : r.internalIp = loc.ansible_gw.privateIpv4
                        /\ loc.fw_result = r.externalIp

\* C22: the re-run of state=present on a gateway whose server, NAT rule and
\* firewall rule are in place issues no mutating call and reports changed=false.
C22_RerunUnchanged ==
    GwInPlace => result = "ok" /\ ~changed /\ MutatingCalls = {}

\* ------------------------------------------------------------------------
\* ntt_mcp_static_route.  Route names, networks, next hops and descriptions
\* are numbered; a cidr is a network with a prefix length.
\* ------------------------------------------------------------------------
SrNames == {1, 2, 3}
SrNetworks == {1, 2}
SrPrefixes == {16, 24}
SrHops == {1, 2}
SrDescriptions == {1, 2}
NoCidr == [network |-> NoneVal, prefix |-> NoneVal]
SrCidrs == [network : SrNetworks, prefix : SrPrefixes]
NoRoute == [name |-> NoneVal, destinationNetworkAddress |-> NoneVal,
            destinationPrefixSize |-> NoneVal,
            nextHopAddress |-> NoneVal, description |-> NoneVal]
SrRoutes == [name : SrNames, destinationNetworkAddress : SrNetworks,
             destinationPrefixSize : SrPrefixes,
             nextHopAddress : SrHops, description : SrDescriptions]

\* module.params.get(key): None for a key the argument spec does not declare
ParamGet(p, key) == IF key \in DOMAIN p THEN p[key] ELSE NoneVal

\* compare_static_route, lines 248-258: new_route, the copy of the route with
\* the request's values put in
RequestedRoute(p, network_cidr, route) ==
    [name |-> IF Truthy(ParamGet(p, "name")) THEN ParamGet(p, "name") ELSE route.name,
     destinationNetworkAddress |->
         IF Truthy(ParamGet(p, "network")) THEN network_cidr.network
         ELSE route.destinationNetworkAddress,
     destinationPrefixSize |->
         IF Truthy(ParamGet(p, "prefix")) THEN network_cidr.prefix
         ELSE route.destinationPrefixSize,
     nextHopAddress |-> IF Truthy(ParamGet(p, "next_hop")) THEN ParamGet(p, "next_hop")
                        ELSE route.nextHopAddress,
     description |-> IF Truthy(ParamGet(p, "description")) THEN ParamGet(p, "description")
                     ELSE route.description]

\* compare_static_route, lines 260-264: compare_json(new_route, route).get('changes')
CompareStaticRoute(p, network_cidr, route) == RequestedRoute(p, network_cidr, route) # route

\* the answers list_static_routes can give to the lookup by name (names are
\* unique in a network domain) and to the lookup by network, prefix and next hop
SrByName(p) ==
    {<<>>} \cup {<<r>> : r \in {x \in SrRoutes : x.name = p.name}}
SrNetworkMatch(p) ==
    {x \in SrRoutes : /\ x.name # p.name
                      /\ x.destinationNetworkAddress = p.cidr.network
                      /\ x.destinationPrefixSize = p.cidr.prefix
                      /\ p.next_hop \in {NoneVal, x.nextHopAddress}}
SrByNetwork(p) ==
    {<<>>} \cup {<<r>> : r \in SrNetworkMatch(p)}
           \cup {<<r, s>> : r \in {x \in SrNetworkMatch(p) : x.nextHopAddress = 1
                                                            /\ x.description = 1
                                                            /\ x.name = 2},
                            s \in {x \in SrNetworkMatch(p) : x.nextHopAddress = 2
                                                            /\ x.description = 1
                                                            /\ x.name = 3}}

\* main, lines 328-346: for a state other than restore, the lookup by name when
\* a name is given, then by the network when that matched nothing and a cidr
\* was given; only a single match becomes the route
SrLookup ==
    /\ pc = "sr_main"
    /\ LET by_name == IF Truthy(params.name)
                      THEN <<RCall("list_static_routes", params.name, NoneVal)>>
                      ELSE <<>>
           by_network == <<RCall("list_static_routes", params.cidr.network, params.next_hop)>>
           routes == IF Truthy(params.name) THEN loc.by_name ELSE <<>>
       IN IF params.state = "restore"
          THEN /\ UNCHANGED <<calls, loc>>
          ELSE IF routes = <<>> /\ params.cidr # NoCidr
          THEN /\ calls' = calls \o by_name \o by_network
               /\ loc' = [loc EXCEPT !.route = IF Len(loc.by_network) = 1
                                               THEN loc.by_network[1] ELSE NoRoute]
          ELSE /\ calls' = calls \o by_name
               /\ loc' = [loc EXCEPT !.route = IF Len(routes) = 1
                                               THEN routes[1] ELSE NoRoute]
    /\ pc' = IF params.state = "present" THEN "sr_present"
             ELSE IF params.state = "restore" THEN "sr_restore" ELSE "sr_absent"
    /\ UNCHANGED <<result, changed, msg>>
    /\ UNCHANGED <<nats, blocks, vips, fw, gw, nats0, run, prev>>
    /\ UNCHANGED <<entry, params, check_mode>>
    /\ UNCHANGED diskVars

\* create_static_route, lines 199-209: network_cidr.version raises
\* AttributeError without a cidr (main reports it), and fail_json answers a
\* missing name or next hop; no call is issued in either case
SrCreateRefused(p) == p.cidr = NoCidr \/ p.name = NoneVal \/ p.next_hop = NoneVal

\* main, lines 348-360, with create_static_route (lines 199-219) and
\* delete_static_route (lines 231-236)
SrPresent ==
    /\ pc = "sr_present"
    /\ LET route == loc.route
           remove == <<RCall("remove_static_route", NoneVal, NoneVal)>>
           create == <<RCall("create_static_route", params.cidr.network, params.next_hop),
                       RCall("list_static_routes", params.name, NoneVal)>>
           differs == CompareStaticRoute(params, params.cidr, route)
           before == IF route # NoRoute /\ differs THEN remove ELSE <<>>
       IN IF check_mode
          THEN /\ Exit("ok", FALSE, "none")
               /\ UNCHANGED calls
          ELSE IF route # NoRoute /\ ~differs
          THEN /\ Exit("ok", FALSE, "none")
               /\ UNCHANGED calls
          ELSE IF SrCreateRefused(params)
          THEN /\ calls' = calls \o before
               /\ Exit("failed", FALSE, "could not update")
          ELSE /\ calls' = calls \o before \o create
               /\ Exit("ok", TRUE, "none")
    /\ UNCHANGED loc
    /\ UNCHANGED <<nats, blocks, vips, fw, gw, nats0, run, prev>>
    /\ UNCHANGED <<entry, params, check_mode>>
    /\ UNCHANGED diskVars

\* main, lines 361-367: state=restore
SrRestore ==
    /\ pc = "sr_restore"
    /\ IF check_mode
       THEN /\ Exit("ok", FALSE, "will be restored")
            /\ UNCHANGED calls
       ELSE /\ calls' = Append(calls, RCall("restore_static_routes", NoneVal, NoneVal))
            /\ Exit("ok", TRUE, "restored")
    /\ UNCHANGED loc
    /\ UNCHANGED <<nats, blocks, vips, fw, gw, nats0, run, prev>>
    /\ UNCHANGED <<entry, params, check_mode>>
    /\ UNCHANGED diskVars

\* main, lines 368-377, with delete_static_route (lines 231-236): state=absent
SrAbsent ==
    /\ pc = "sr_absent"
    /\ IF loc.route = NoRoute
       THEN /\ Exit("ok", FALSE, "no route matched")
            /\ UNCHANGED calls
       ELSE IF check_mode
       THEN /\ Exit("ok", FALSE, "will be removed")
            /\ UNCHANGED calls
       ELSE /\ calls' = Append(calls, RCall("remove_static_route", NoneVal, NoneVal))
            /\ Exit("ok", TRUE, "deleted")
    /\ UNCHANGED loc
    /\ UNCHANGED <<nats, blocks, vips, fw, gw, nats0, run, prev>>
    /\ UNCHANGED <<entry, params, check_mode>>
    /\ UNCHANGED diskVars

InitStaticRoute ==
    /\ pc = "sr_main"
    /\ result = "running"
    /\ changed = FALSE
    /\ msg = "none"
    /\ calls = <<>>
    /\ entry = "static_route"
    /\ params \in [state : {"present", "absent", "restore"}, name : {1, NoneVal},
                   description : SrDescriptions \cup {NoneVal},
                   cidr : SrCidrs \cup {NoCidr},
                   next_hop : SrHops \cup {NoneVal}]
    /\ check_mode \in BOOLEAN
    /\ \E by_name \in SrByName(params), by_network \in SrByNetwork(params) :
          /\ by_network # <<>> => by_name = <<>> /\ params.cidr # NoCidr
          /\ by_name # <<>> => params.name # NoneVal
          /\ (by_name # <<>> \/ by_network # <<>>) => params.state # "restore"
          /\ loc = [by_name |-> by_name, by_network |-> by_network, route |-> NoRoute]
    /\ nats = {} /\ blocks = {} /\ vips = {} /\ fw = NoneVal /\ gw = NoServer
    /\ nats0 = {} /\ run = 1 /\ prev = NoPrev
    /\ DiskIdle

NextStaticRoute ==
    \/ SrLookup
    \/ SrPresent
    \/ SrRestore
    \/ SrAbsent

SpecStaticRoute == InitStaticRoute /\ [][NextStaticRoute]_vars

\* the calls of the log that change the remote system, in order
SrMutations == SelectSeq(calls, LAMBDA c : c.op \in {"remove_static_route",
                                                     "create_static_route",
                                                     "restore_static_routes"})

\* the route the lookup by name found
SrNamed == IF loc.by_name # <<>> THEN loc.by_name[1] ELSE NoRoute

\* a field the request gives differs from the route found for the name
SrDivergent ==
    \/ params.cidr # NoCidr
         /\ \/ params.cidr.network # SrNamed.destinationNetworkAddress
            \/ params.cidr.prefix # SrNamed.destinationPrefixSize
    \/ params.next_hop # NoneVal /\ params.next_hop # SrNamed.nextHopAddress
    \/ params.description # NoneVal /\ params.description # SrNamed.description

\* C23: with state=present and a route of the requested name, a difference in
\* the destination network, prefix size, next hop or description is answered by
\* remove_static_route and then create_static_route; without a difference
\* neither call is issued and changed is not reported.
C23_DivergentReplaced ==
    (/\ entry = "static_route" /\ params.state = "present"
     /\ pc = "done" /\ ~check_mode /\ SrNamed # NoRoute) =>
        IF SrDivergent
        THEN /\ Len(SrMutations) = 2
             /\ SrMutations[1].op = "remove_static_route"
             /\ SrMutations[2].op = "create_static_route"
        ELSE SrMutations = <<>> /\ ~changed

\* ------------------------------------------------------------------------
\* server_disk: the disk operations and the stopped server
\* ------------------------------------------------------------------------
DiskOps == {"add_disk", "remove_disk", "update_disk_speed", "change_iops", "expand_disk"}

\* C24: a disk-mutating call is only issued while the last observation of the
\* server, the initial lookup or a completed wait, showed it stopped.
C24_StoppedBeforeDiskOp ==
    [][(/\ entry \in {"main", "server_disk"}
        /\ CallIssued
        /\ calls'[Len(calls')].op \in DiskOps) => ~rstarted]_vars

\* ------------------------------------------------------------------------
\* Two invocations at once against one network domain: ipam_public
\* state=absent releasing a block by one of its addresses, and nat
\* state=present creating a rule.  Each step is one remote call (with the
\* local decisions behind it); loc.ipam and loc.nat hold the position and
\* the locals of the two invocations.  The remote system may refuse the
\* removal of a block (NTTMCPAPIException).
\* ------------------------------------------------------------------------
Ended == {"ok", "failed", "crash"}

\* the shared position: "done" once both invocations have ended
RacePc(l) == IF l.ipam.pc \in Ended /\ l.nat.pc \in Ended THEN "done" ELSE "race"

\* ipam_public delete_public_ipv4, lines 207-231
RaceIpamCheck ==
    /\ pc = "race"
    /\ loc.ipam.pc = "check"
    /\ LET found == GetPublicIpv4ByIp(blocks, params.ip_address)
           in_use == CheckPublicBlockInUse(nats, vips, found)
           next == IF found = NoneVal THEN "crash"
                   ELSE IF IpamBlocked(in_use) THEN "failed" ELSE "remove"
           l == [loc EXCEPT !.ipam = [pc |-> next, public_ipv4_block |-> found]]
       IN /\ calls' = IF found = NoneVal THEN calls
                      ELSE Append(calls, RCall("check_public_block_in_use", BaseIp(found),
                                               IF in_use THEN 1 ELSE 0))
          /\ loc' = l
          /\ pc' = RacePc(l)
    /\ UNCHANGED <<result, changed, msg>>
    /\ UNCHANGED <<nats, blocks, vips, fw, gw, nats0, run, prev>>
    /\ UNCHANGED <<entry, params, check_mode>>
    /\ UNCHANGED diskVars

\* ipam_public delete_public_ipv4, lines 232-236
RaceIpamRemove ==
    /\ pc = "race"
    /\ loc.ipam.pc = "remove"
    /\ \E accepted \in BOOLEAN :
          LET l == [loc EXCEPT !.ipam.pc = IF accepted THEN "ok" ELSE "failed"]
          IN /\ calls' = Append(calls, RCall("remove_public_ipv4",
                                             loc.ipam.public_ipv4_block, NoneVal))
             /\ blocks' = IF accepted THEN blocks \ {loc.ipam.public_ipv4_block} ELSE blocks
             /\ loc' = l
             /\ pc' = RacePc(l)
    /\ UNCHANGED <<result, changed, msg>>
    /\ UNCHANGED <<nats, vips, fw, gw, nats0, run, prev>>
    /\ UNCHANGED <<entry, params, check_mode>>
    /\ UNCHANGED diskVars

\* nat create_nat_rule, lines 226-248
RaceNatLookup ==
    /\ pc = "race"
    /\ loc.nat.pc = "lookup"
    /\ LET nat_rule == GetNatByPrivateIp(nats, params.internal_ip)
           nat_rule_public == GetNatByPublicIp(nats, params.external_ip)
           external_ip == IF nat_rule # NoRule /\ params.external_ip = NoneVal
                          THEN nat_rule.externalIp ELSE params.external_ip
           pending == NatConflicts(nat_rule, nat_rule_public)
           next == IF NatExact(nat_rule, params.internal_ip, params.external_ip) THEN "ok"
                   ELSE IF pending # <<>> THEN "remove" ELSE "alloc"
           l == [loc EXCEPT !.nat = [pc |-> next, external_ip |-> external_ip,
                                     pending |-> IF next = "ok" THEN <<>> ELSE pending]]
       IN /\ loc' = l
          /\ pc' = RacePc(l)
    /\ UNCHANGED <<calls, result, changed, msg>>
    /\ UNCHANGED <<nats, blocks, vips, fw, gw, nats0, run, prev>>
    /\ UNCHANGED <<entry, params, check_mode>>
    /\ UNCHANGED diskVars

\* nat create_nat_rule, lines 249 and 255
RaceNatRemove ==
    /\ pc = "race"
    /\ loc.nat.pc = "remove"
    /\ LET r == Head(loc.nat.pending)
           l == [loc EXCEPT !.nat.pending = Tail(@),
                            !.nat.pc = IF Tail(loc.nat.pending) = <<>> THEN "alloc"
                                       ELSE "remove"]
       IN /\ calls' = Append(calls, RCall("remove_nat_rule", r.internalIp, r.externalIp))
          /\ nats' = nats \ {r}
          /\ loc' = l
          /\ pc' = RacePc(l)
    /\ UNCHANGED <<result, changed, msg>>
    /\ UNCHANGED <<blocks, vips, fw, gw, nats0, run, prev>>
    /\ UNCHANGED <<entry, params, check_mode>>
    /\ UNCHANGED diskVars

\* nat create_nat_rule, lines 259-265
RaceNatAllocate ==
    /\ pc = "race"
    /\ loc.nat.pc = "alloc"
    /\ LET free == FreeIps(blocks, nats, vips)
           nb == NextBlock(blocks)
           ip == IF loc.nat.external_ip # NoneVal THEN loc.nat.external_ip
                 ELSE IF free # {} THEN SetMin(free)
                 ELSE IF nb # NoneVal THEN BaseIp(nb) ELSE NoneVal
           adds == loc.nat.external_ip = NoneVal /\ free = {} /\ nb # NoneVal
           l == [loc EXCEPT !.nat.external_ip = ip,
                            !.nat.pc = IF ip = NoneVal THEN "failed" ELSE "create"]
       IN /\ calls' = IF adds THEN Append(calls, RCall("add_public_ipv4", nb, NoneVal))
                      ELSE calls
          /\ blocks' = IF adds THEN blocks \cup {nb} ELSE blocks
          /\ loc' = l
          /\ pc' = RacePc(l)
    /\ UNCHANGED <<result, changed, msg>>
    /\ UNCHANGED <<nats, vips, fw, gw, nats0, run, prev>>
    /\ UNCHANGED <<entry, params, check_mode>>
    /\ UNCHANGED diskVars

\* nat create_nat_rule, lines 272-277
RaceNatCreate ==
    /\ pc = "race"
    /\ loc.nat.pc = "create"
    /\ LET accepted == BlockOf(loc.nat.external_ip) \in blocks
                       /\ loc.nat.external_ip \notin vips
           l == [loc EXCEPT !.nat.pc = IF accepted THEN "ok" ELSE "failed"]
       IN /\ calls' = Append(calls, RCall("create_nat_rule", params.internal_ip,
                                          loc.nat.external_ip))
          /\ nats' = IF accepted
                     THEN nats \cup {Rule(params.internal_ip, loc.nat.external_ip)}
                     ELSE nats
          /\ loc' = l
          /\ pc' = RacePc(l)
    /\ UNCHANGED <<result, changed, msg>>
    /\ UNCHANGED <<blocks, vips, fw, gw, nats0, run, prev>>
    /\ UNCHANGED <<entry, params, check_mode>>
    /\ UNCHANGED diskVars

InitRace ==
    /\ pc = "race"
    /\ result = "running"
    /\ changed = FALSE
    /\ msg = "none"
    /\ calls = <<>>
    /\ entry = "race"
    /\ params \in [ip_address : ExtIps, internal_ip : IntIps,
                   external_ip : ExtIps \cup {NoneVal}]
    /\ check_mode = FALSE
    /\ InitRemote
    /\ fw = NoneVal /\ gw = NoServer
    /\ loc = [ipam |-> [pc |-> "check", public_ipv4_block |-> NoneVal],
              nat |-> [pc |-> "lookup", external_ip |-> NoneVal, pending |-> <<>>]]
    /\ run = 1 /\ prev = NoPrev
    /\ DiskIdle

NextRace ==
    \/ RaceIpamCheck
    \/ RaceIpamRemove
    \/ RaceNatLookup
    \/ RaceNatRemove
    \/ RaceNatAllocate
    \/ RaceNatCreate

SpecRace == InitRace /\ [][NextRace]_vars

\* C25: when both invocations have ended, every NAT rule's public address
\* lies in a block the network domain still owns.
C25_NoDanglingRule ==
    (entry = "race" /\ pc = "done") =>
        \A r \in nats : BlockOf(r.externalIp) \in blocks

\* C26: a wait_for_server that waits for the VMware Tools and returns
\* normally returns a snapshot whose tools are RUNNING.
C26_ReturnedToolsRunning ==
    (entry = "wait_for_server" /\ pc = "done" /\ result = "ok" /\ loc.wait_for_vmtools)
        => loc.data.vmTools = "RUNNING"

\* ------------------------------------------------------------------------
\* wait_for_server of server_disk and of server_controller run on the same
\* arguments and the same sequence of list_servers answers
\* ------------------------------------------------------------------------
\* the sequences of answers as long as the most polls a wait can make
AnswerSeqs(n) == UNION {[1..k -> Responses] : k \in 0..n}

\* how a run ended: the outcome, the polls made and the snapshot returned
NotRun == [outcome |-> "none", polls |-> 0, data |-> NoSnapshot]

\* the function whose turn it is has ended with outcome r: server_controller's
\* function is entered next, or both have run
WaitCompareEnded(r) ==
    IF loc.turn = "disk"
    THEN /\ loc' = [loc EXCEPT !.disk = r, !.turn = "controller", !.n = 0,
                               !.running = [loc.entered EXCEPT
                                              !.variant = "server_controller"]]
         /\ UNCHANGED <<pc, result, changed, msg>>
    ELSE /\ loc' = [loc EXCEPT !.controller = r]
         /\ Exit("ok", FALSE, "none")

\* one iteration of the loop of the function whose turn it is, on the next
\* answer of list_servers: fail_json, or the locals after it (and the sleep)
WaitComparePoll ==
    /\ pc = "wait_compare"
    /\ ~loc.running.set_state /\ loc.running.time < loc.running.wait_time
    /\ loc.n < Len(loc.answers)
    /\ LET step == WaitStep(loc.running, loc.answers[loc.n + 1])
       IN IF step.exit # "none"
          THEN WaitCompareEnded([outcome |-> step.exit, polls |-> loc.n + 1,
                                 data |-> NoSnapshot])
          ELSE /\ loc' = [loc EXCEPT !.running = step.l, !.n = loc.n + 1]
               /\ UNCHANGED <<pc, result, changed, msg>>
    /\ calls' = Append(calls, RCall("list_servers", NoneVal, NoneVal))
    /\ UNCHANGED <<nats, blocks, vips, fw, gw, nats0, run, prev>>
    /\ UNCHANGED <<entry, params, check_mode>>
    /\ UNCHANGED diskVars

\* after the loop: the timeout, the IndexError or the return; a run whose
\* answers are used up before that is left "polling"
WaitCompareReturn ==
    /\ pc = "wait_compare"
    /\ LET l == loc.running
           ended == l.set_state \/ l.time >= l.wait_time
       IN /\ ended \/ loc.n = Len(loc.answers)
          /\ WaitCompareEnded(
                IF ended
                THEN [outcome |-> WaitEnd(l), polls |-> loc.n,
                      data |-> IF WaitEnd(l) = "return" THEN l.server ELSE NoSnapshot]
                ELSE [outcome |-> "polling", polls |-> loc.n, data |-> NoSnapshot])
    /\ UNCHANGED <<calls, nats, blocks, vips, fw, gw, nats0, run, prev>>
    /\ UNCHANGED <<entry, params, check_mode>>
    /\ UNCHANGED diskVars

InitWaitCompare ==
    /\ pc = "wait_compare"
    /\ result = "running"
    /\ changed = FALSE
    /\ msg = "none"
    /\ calls = <<>>
    /\ entry = "wait_compare"
    /\ params = NoParams
    /\ check_mode = FALSE
    /\ \E e \in {l \in WaitEntries : l.variant = "server_disk"},
          s \in AnswerSeqs(MaxWaitTime) :
          loc = [entered |-> e, answers |-> s, turn |-> "disk", n |-> 0,
                 running |-> e, disk |-> NotRun, controller |-> NotRun]
    /\ nats = {} /\ blocks = {} /\ vips = {} /\ fw = NoneVal /\ gw = NoServer
    /\ nats0 = {} /\ run = 1 /\ prev = NoPrev
    /\ DiskIdle

NextWaitCompare ==
    \/ WaitComparePoll
    \/ WaitCompareReturn

SpecWaitCompare == InitWaitCompare /\ [][NextWaitCompare]_vars

\* C30: on the same arguments and the same answers the two functions end the
\* same way, with the same snapshot, after the same number of polls.
C30_SameOutcome ==
    (entry = "wait_compare" /\ pc = "done") => loc.disk = loc.controller

\* ------------------------------------------------------------------------
\* vip_ssl_certificate.  loc.matched is the number of certificates (chains)
\* the lookup finds, loc.referenced whether an SSL offload profile names the
\* certificate, loc.lookup_error whether the lookup raises.
\* ------------------------------------------------------------------------
\* main, lines 340-352: the try block with the in-use check is indented under
\* the except clause of the lookup, behind its fail_json; it is part of the
\* handler and is reached only when the lookup raised
InUseCheckReached(lookup_error) == lookup_error

\* main, lines 322-352: the lookup of the certificate and the in-use check
CertLookup ==
    /\ pc = "cert_main"
    /\ LET lookup == RCall(IF params.id # NoneVal THEN "get_vip_ssl" ELSE "list_vip_ssl",
                           NoneVal, loc.matched)
           profiles == RCall("list_vip_ssl_profiles", NoneVal, NoneVal)
       IN IF loc.lookup_error
          THEN \* fail_json ends the module inside the handler
               /\ calls' = Append(calls, lookup)
               /\ Exit("failed", FALSE, "lookup failed")
               /\ loc' = loc
          ELSE IF InUseCheckReached(loc.lookup_error)
          THEN /\ calls' = calls \o <<lookup, profiles>>
               /\ loc' = [loc EXCEPT !.cert = loc.matched = 1]
               /\ IF loc.referenced
                  THEN Exit("failed", FALSE, "in use")
                  ELSE pc' = "cert_" \o params.state /\ UNCHANGED <<result, changed, msg>>
          ELSE /\ calls' = Append(calls, lookup)
               /\ loc' = [loc EXCEPT !.cert = loc.matched = 1]
               /\ pc' = "cert_" \o params.state
               /\ UNCHANGED <<result, changed, msg>>
    /\ UNCHANGED <<nats, blocks, vips, fw, gw, nats0, run, prev>>
    /\ UNCHANGED <<entry, params, check_mode>>
    /\ UNCHANGED diskVars

\* main, lines 354-365, with delete_ssl_cert (236-241) and import_ssl_cert
CertPresent ==
    /\ pc = "cert_present"
    /\ \E removed \in BOOLEAN, imported \in BOOLEAN :
          LET remove == RCall("remove_ssl", NoneVal, NoneVal)
              import == RCall("import_ssl_cert", NoneVal, NoneVal)
          IN IF check_mode
             THEN /\ removed /\ imported
                  /\ Exit("ok", FALSE, "none")
                  /\ UNCHANGED calls
             ELSE IF loc.cert /\ ~removed
             THEN /\ imported
                  /\ calls' = Append(calls, remove)
                  /\ Exit("failed", FALSE, "could not remove")
             ELSE /\ calls' = calls \o (IF loc.cert THEN <<remove>> ELSE <<>>) \o <<import>>
                  /\ ~loc.cert => removed
                  /\ IF imported THEN Exit("ok", TRUE, "none")
                     ELSE Exit("failed", FALSE, "could not import")
    /\ UNCHANGED loc
    /\ UNCHANGED <<nats, blocks, vips, fw, gw, nats0, run, prev>>
    /\ UNCHANGED <<entry, params, check_mode>>
    /\ UNCHANGED diskVars

\* main, lines 366-373
CertAbsent ==
    /\ pc = "cert_absent"
    /\ \E removed \in BOOLEAN :
          IF ~loc.cert \/ check_mode
          THEN /\ removed
               /\ Exit("ok", FALSE, "none")
               /\ UNCHANGED calls
          ELSE /\ calls' = Append(calls, RCall("remove_ssl", NoneVal, NoneVal))
               /\ IF removed THEN Exit("ok", TRUE, "removed")
                  ELSE Exit("failed", FALSE, "could not remove")
    /\ UNCHANGED loc
    /\ UNCHANGED <<nats, blocks, vips, fw, gw, nats0, run, prev>>
    /\ UNCHANGED <<entry, params, check_mode>>
    /\ UNCHANGED diskVars

InitCert ==
    /\ pc = "cert_main"
    /\ result = "running"
    /\ changed = FALSE
    /\ msg = "none"
    /\ calls = <<>>
    /\ entry = "vip_ssl_certificate"
    /\ params \in [state : {"present", "absent"}, type : {"certificate", "chain"},
                   id : {NoneVal, 1}]
    /\ check_mode \in BOOLEAN
    /\ \E matched \in 0..2, referenced \in BOOLEAN, lookup_error \in BOOLEAN :
          /\ params.id # NoneVal => matched <= 1
          /\ referenced => matched >= 1
          /\ loc = [matched |-> matched, referenced |-> referenced,
                    lookup_error |-> lookup_error, cert |-> FALSE]
    /\ nats = {} /\ blocks = {} /\ vips = {} /\ fw = NoneVal /\ gw = NoServer
    /\ nats0 = {} /\ run = 1 /\ prev = NoPrev
    /\ DiskIdle

NextCert ==
    \/ CertLookup
    \/ CertPresent
    \/ CertAbsent

SpecCert == InitCert /\ [][NextCert]_vars

\* C27: remove_ssl is never issued for a certificate or chain an SSL offload
\* profile references; the module fails instead.
C27_ReferencedNotRemoved ==
    (entry = "vip_ssl_certificate" /\ loc.referenced) =>
        /\ \A i \in 1..Len(calls) : calls[i].op # "remove_ssl"
        /\ (pc = "done" /\ ~loc.lookup_error /\ loc.matched = 1) =>
               result = "failed" /\ msg = "in use"

\* C28: inside update_piops_disk, entered from update_disk, the planner's
\* current_size and current_iops are the remote disk's size and IOPS: at its
\* start (also right after a change of the speed to PROVISIONEDIOPS) and after
\* each step.
C28_PlannerSeesRemote ==
    (entry = "main" /\ (pc \in {"loop", "size"} \/ (pc = "wait" /\ ret \in {"loop", "size"})))
        => current_size = rsize /\ current_iops = riops

\* ------------------------------------------------------------------------
\* The changed flag of ansible_gw, ipam_public, snapshot_restore,
\* snapshot_service and nat against the calls they issued
\* ------------------------------------------------------------------------
InitChanged == InitGwExisting \/ InitRelease \/ InitSnapWait \/ InitNat

NextChanged ==
    \/ GwExistingNat
    \/ GwExistingFw
    \/ IpamPresent
    \/ IpamAbsentCheck
    \/ IpamRemove
    \/ GwDeleteServer
    \/ GwShutdown
    \/ WaitPoll
    \/ WaitReturn
    \/ GwDeleteCall
    \/ GwDeletePoll
    \/ GwDeleteReturn
    \/ GwDeleteFw
    \/ GwDeleteNat
    \/ GwCheckBlock
    \/ GwRemoveBlock
    \/ SnapshotRestore
    \/ WaitForSnapshotPoll
    \/ WaitForSnapshotReturn
    \/ DisableReplication
    \/ ReplicationPoll
    \/ ReplicationReturn
    \/ NatLookup
    \/ NatRemove
    \/ NatAllocate
    \/ NatCreate
    \/ NatDeleteLookup
    \/ NatDelete

SpecChanged == InitChanged /\ [][NextChanged]_vars

\* C29: an invocation that ends successfully reports changed=true exactly
\* when it issued a mutating remote call.
C29_ChangedIffMutated ==
    (pc = "done" /\ result = "ok") => (changed <=> MutatingCalls # {})
====
